---------------------------- MODULE Spec2Model ----------------------------
(***************************************************************************)
(* Model of tools/kinoapi_tests: the test runner (run_tests.py) and the    *)
(* device authenticator (extract_token.py).                                *)
(*                                                                         *)
(* These specifications share the module:                                  *)
(*   Spec        the orchestrator _run_all, one action per test routine    *)
(*   SpecToken   _resolve_access_token / _read_token_file over bounded     *)
(*               arguments, environment values and token files             *)
(*   SpecRedact  _redact_json over bounded JSON documents                  *)
(*   SpecSnap    _save_snapshot over bounded request descriptors and       *)
(*               responses                                                 *)
(*   SpecList    test_items_listing over bounded listing responses         *)
(*   SpecFlow    extract_token.py: main and the poll loop of _device_flow, *)
(*               SpecFlowLive with the fairness its termination needs      *)
(*                                                                         *)
(* Text is a sequence of one-character strings.  An optional value         *)
(* (Python's None or a value) is a sequence of length 0 or 1.              *)
(***************************************************************************)
EXTENDS Integers, Sequences, FiniteSets, TLC

VARIABLES
    \* ---- SpecToken ----
    tk_pc,          \* "idle" | "args" | "resolved"
    tk_arg,         \* token_arg: optional text
    tk_env,         \* os.environ.get(ENV_ACCESS_TOKEN): optional text
    tk_file,        \* the token file
    tk_res,         \* the pair returned by _resolve_access_token
    \* ---- SpecRedact ----
    rd_pc,          \* "idle" | "build" | "once" | "twice"
    rd_doc,         \* the JSON document handed to _redact_json
    rd_out,         \* _redact_json(rd_doc)
    rd_out2,        \* _redact_json(rd_out)
    \* ---- Spec: _run_all ----
    pc,                  \* position in _run_all: the next step, "done" or "raised"
    include_mutating,    \* arguments of _run_all
    include_destructive,
    include_api2,
    has_client,          \* client_id and client_secret both given (once read)
    api2_device_token,   \* api2_device_token given (once read)
    api2_upload_report,  \* api2_upload_report (once read)
    token,               \* the resolved access token (optional)
    results,             \* the results list: <<test id, status, errors>>
    requests,            \* every HTTP request issued so far, in order
    summary,             \* the summary.json documents written, in order
    exit_code,           \* the value _run_all returned (optional)
    ctx,                 \* identifiers threaded between the tests
    faults,              \* responses so far that were not the documented one
    \* ---- SpecSnap: _save_snapshot ----
    sn_pc,          \* "idle" | "call" | "saved"
    sn_req,         \* the request descriptor handed to _save_snapshot
    sn_resp,        \* the HttpResponse handed to _save_snapshot
    sn_out,         \* the document written to <test_id>.snapshot.json
    \* ---- SpecList: test_items_listing ----
    li_pc,          \* "idle" | "call" | "returned"
    li_resp,        \* the response of GET /v1/items
    li_out,         \* the pair returned: outcome and item_id
    \* ---- SpecFlow: extract_token.py ----
    fl_pc,          \* position in main / _device_flow, "done" or "raised"
    fl_creds,       \* client_id and client_secret both given
    fl_expires_in,  \* expires_in of the device-code answer
    fl_interval,    \* interval of the device-code answer
    fl_poll_interval, \* poll_interval
    fl_now,         \* time.time(), in seconds since main started
    fl_deadline,    \* deadline
    fl_resp,        \* the poll answer being handled
    fl_code_reqs,   \* device-code requests issued
    fl_poll_times,  \* the time each poll request was started at, in order
    fl_sleeps,      \* the seconds each time.sleep was called with, in order
    fl_slow,        \* slow_down answers received
    fl_end,         \* how the flow ended, "" while it has not
    fl_file,        \* the token file (optional)
    fl_printed,     \* the access token as printed (optional)
    fl_exit,        \* the value main returned (optional)
    \* ---- SpecSettings: the settings update of test_device_mutating ----
    st_pc,          \* "idle" | "read" | "returned"
    st_map,         \* settings_map: the settings member of the response (optional)
    st_out,         \* what the routine did: the form posted (optional) and the outcome
    \* ---- SpecCode: the device-code step of _device_flow ----
    dc_pc,          \* "idle" | "request" | "loop" | "raised"
    dc_resp,        \* the device-code response
    dc_msg,         \* the message of the RuntimeError raised, "" if none
    \* ---- SpecShape: the shape assertions ----
    sh_pc,          \* "idle" | "probe"
    sh_errors,      \* errors: the accumulator of the probe
    sh_log          \* the assertions made so far: <<assertion, type of the value>>

vars ==
    <<tk_pc, tk_arg, tk_env, tk_file, tk_res, rd_pc, rd_doc, rd_out, rd_out2,
      pc, include_mutating, include_destructive, include_api2, has_client,
      api2_device_token, api2_upload_report, token, results, requests, summary,
      exit_code, ctx, faults,
      sn_pc, sn_req, sn_resp, sn_out, li_pc, li_resp, li_out,
      fl_pc, fl_creds, fl_expires_in, fl_interval, fl_poll_interval, fl_now,
      fl_deadline, fl_resp, fl_code_reqs, fl_poll_times, fl_sleeps, fl_slow,
      fl_end, fl_file, fl_printed, fl_exit,
      st_pc, st_map, st_out, dc_pc, dc_resp, dc_msg, sh_pc, sh_errors, sh_log>>

tokenVars == <<tk_pc, tk_arg, tk_env, tk_file, tk_res>>
redactVars == <<rd_pc, rd_doc, rd_out, rd_out2>>
runVars ==
    <<pc, include_mutating, include_destructive, include_api2, has_client,
      api2_device_token, api2_upload_report, token, results, requests, summary,
      exit_code, ctx, faults>>

snapVars == <<sn_pc, sn_req, sn_resp, sn_out>>
listVars == <<li_pc, li_resp, li_out>>
flowVars ==
    <<fl_pc, fl_creds, fl_expires_in, fl_interval, fl_poll_interval, fl_now,
      fl_deadline, fl_resp, fl_code_reqs, fl_poll_times, fl_sleeps, fl_slow,
      fl_end, fl_file, fl_printed, fl_exit>>
settingsVars == <<st_pc, st_map, st_out>>
codeVars == <<dc_pc, dc_resp, dc_msg>>
shapeVars == <<sh_pc, sh_errors, sh_log>>
laterVars == <<settingsVars, codeVars, shapeVars>>
earlierVars == <<tokenVars, redactVars, runVars, snapVars, listVars, flowVars>>
otherVars == <<snapVars, listVars, flowVars, laterVars>>

None == <<>>
Some(x) == <<x>>

-----------------------------------------------------------------------------
(* Text helpers: str.strip, str.lstrip, str.splitlines, str.startswith.    *)

Whitespace == {" ", "\n"}

RECURSIVE LStrip(_)
LStrip(s) ==
    IF s = <<>> THEN s
    ELSE IF Head(s) \in Whitespace THEN LStrip(Tail(s)) ELSE s

RECURSIVE RStrip(_)
RStrip(s) ==
    IF s = <<>> THEN s
    ELSE IF s[Len(s)] \in Whitespace THEN RStrip(SubSeq(s, 1, Len(s) - 1)) ELSE s

Strip(s) == RStrip(LStrip(s))

StartsWith(s, c) == s # <<>> /\ Head(s) = c

RECURSIVE SplitAcc(_, _, _)
SplitAcc(s, cur, acc) ==
    IF s = <<>> THEN (IF cur = <<>> THEN acc ELSE Append(acc, cur))
    ELSE IF Head(s) = "\n" THEN SplitAcc(Tail(s), <<>>, Append(acc, cur))
    ELSE SplitAcc(Tail(s), Append(cur, Head(s)), acc)

SplitLines(s) == SplitAcc(s, <<>>, <<>>)

-----------------------------------------------------------------------------
(* Token file and token resolution (run_tests.py 110-152).                 *)

\* A JSON value of a token-file field, as far as _read_token_file looks at it.
JNull == [ty |-> "null", s |-> <<>>, n |-> 0]
JStr(s) == [ty |-> "str", s |-> s, n |-> 0]
JInt(n) == [ty |-> "int", s |-> <<>>, n |-> n]

\* Python truthiness of a JSON value.
Truthy(v) ==
    CASE v.ty = "null" -> FALSE
      [] v.ty = "str" -> v.s # <<>>
      [] OTHER -> v.n # 0

\* Python's `a or b`.
PyOr(a, b) == IF Truthy(a) THEN a ELSE b

\* A token file: absent/unreadable, plain text, or the text of a JSON object
\* (raw is then the first line of that text, which starts with "{").
AbsentFile == [kind |-> "absent", raw |-> <<>>, access_token |-> JNull, token |-> JNull]
TextFile(raw) == [kind |-> "text", raw |-> raw, access_token |-> JNull, token |-> JNull]
JsonFile(at, tk) == [kind |-> "json", raw |-> <<"{">>, access_token |-> at, token |-> tk]

\* json.loads(raw) followed by isinstance(obj, dict): text in the modelled
\* alphabet has no closing brace, so only a JSON file parses to an object.
IsJsonObject(f) == f.kind = "json"

\* run_tests.py 135-140: first non-empty, non-comment line.
RECURSIVE FirstTokenLine(_)
FirstTokenLine(lines) ==
    IF lines = <<>> THEN None
    ELSE LET line == Strip(Head(lines)) IN
         IF line = <<>> \/ StartsWith(line, "#") THEN FirstTokenLine(Tail(lines))
         ELSE Some(line)

_read_token_file(f) ==
    IF f.kind = "absent" THEN None
    ELSE LET raw == Strip(f.raw) IN
         IF raw = <<>> THEN None
         ELSE LET t == PyOr(f.access_token, f.token) IN
              IF /\ StartsWith(LStrip(raw), "{")
                 /\ IsJsonObject(f)
                 /\ t.ty = "str"
                 /\ Strip(t.s) # <<>>
              THEN Some(Strip(t.s))
              ELSE FirstTokenLine(SplitLines(raw))

\* `x and x.strip()` for an optional text.
NonBlankOpt(x) == x # None /\ x[1] # <<>> /\ Strip(x[1]) # <<>>

_resolve_access_token_env_first(token_arg, env_tok, token_file) ==
    IF NonBlankOpt(env_tok) THEN [token |-> Some(Strip(env_tok[1])), source |-> "env"]
    ELSE IF NonBlankOpt(token_arg) THEN [token |-> Some(Strip(token_arg[1])), source |-> "arg"]
    ELSE LET file_tok == _read_token_file(token_file) IN
         IF file_tok # None /\ file_tok[1] # <<>>
         THEN [token |-> file_tok, source |-> "file"]
         ELSE [token |-> None, source |-> "missing"]

_resolve_access_token(token_arg, env_tok, token_file) ==
    IF NonBlankOpt(token_arg) THEN [token |-> Some(Strip(token_arg[1])), source |-> "arg"]
    ELSE IF NonBlankOpt(env_tok) THEN [token |-> Some(Strip(env_tok[1])), source |-> "env"]
    ELSE LET file_tok == _read_token_file(token_file) IN
         IF file_tok # None /\ file_tok[1] # <<>>
         THEN [token |-> file_tok, source |-> "file"]
         ELSE [token |-> None, source |-> "missing"]

-----------------------------------------------------------------------------
(* Bounded inputs of SpecToken.                                            *)

MaxTokLen == 2
MaxRawLen == 3

RECURSIVE TextsUpTo(_, _)
TextsUpTo(alphabet, n) ==
    IF n = 0 THEN {<<>>}
    ELSE LET shorter == TextsUpTo(alphabet, n - 1) IN
         shorter \cup {Append(s, c) : s \in shorter, c \in alphabet}

OptTexts(alphabet, n) == {None} \cup {Some(s) : s \in TextsUpTo(alphabet, n)}

TokenArgs == OptTexts({" ", "a"}, MaxTokLen)
TokenEnvs == OptTexts({" ", "b"}, MaxTokLen)

FieldValues ==
    {JNull, JStr(<<>>), JStr(<<" ">>), JStr(<<"c">>), JStr(<<" ", "c">>), JInt(0), JInt(5)}

TokenFiles ==
    {AbsentFile}
    \cup {TextFile(raw) : raw \in TextsUpTo({" ", "\n", "f", "#", "{"}, MaxRawLen)}
    \cup {JsonFile(at, tk) : at \in FieldValues, tk \in {JNull, JStr(<<"d">>), JStr(<<" ">>)}}

NoResult == [token |-> None, source |-> "unresolved"]

-----------------------------------------------------------------------------
(* Redaction of JSON documents (run_tests.py 47-76).                       *)
(*                                                                         *)
(* A JSON document is a tagged record: a scalar (null, number, boolean or  *)
(* string, by its text), an object (a function from keys to documents) or  *)
(* an array (a sequence of documents).  Keys are texts.                    *)

Scalar(v) == [k |-> "scalar", v |-> v]
Obj(m) == [k |-> "obj", m |-> m]
Arr(a) == [k |-> "arr", a |-> a]

REDACTED == Scalar("<REDACTED>")

K_access_token == <<"a", "c", "c", "e", "s", "s", "_", "t", "o", "k", "e", "n">>
K_refresh_token == <<"r", "e", "f", "r", "e", "s", "h", "_", "t", "o", "k", "e", "n">>
K_client_secret == <<"c", "l", "i", "e", "n", "t", "_", "s", "e", "c", "r", "e", "t">>
K_device_token == <<"d", "e", "v", "i", "c", "e", "_", "t", "o", "k", "e", "n">>
K_code == <<"c", "o", "d", "e">>
K_user_code == <<"u", "s", "e", "r", "_", "c", "o", "d", "e">>
K_Code == <<"C", "o", "d", "e">>
K_title == <<"t", "i", "t", "l", "e">>

_SENSITIVE_JSON_KEYS ==
    {K_access_token, K_refresh_token, K_client_secret, K_device_token, K_code, K_user_code}

\* str.lower, on the letters the modelled keys use.
UpperToLower ==
    [c \in {"A", "C", "D", "O", "T", "E"} |->
        CASE c = "A" -> "a" [] c = "C" -> "c" [] c = "D" -> "d"
          [] c = "O" -> "o" [] c = "T" -> "t" [] OTHER -> "e"]

LowerChar(c) == IF c \in DOMAIN UpperToLower THEN UpperToLower[c] ELSE c

Lower(key) == [i \in 1..Len(key) |-> LowerChar(key[i])]

\* run_tests.py 69, without the .lower(): an exact, case-sensitive match.
IsSensitiveKeyExact(key) == key \in _SENSITIVE_JSON_KEYS

\* run_tests.py 69: isinstance(k, str) and k.lower() in _SENSITIVE_JSON_KEYS
\* (every key of a parsed JSON object is a str).
IsSensitiveKey(key) == Lower(key) \in _SENSITIVE_JSON_KEYS

RECURSIVE _redact_json(_)

\* run_tests.py 75 with the first element skipped (range(1, len(obj))).
RedactListSkipFirst(a) == [i \in 1..(Len(a) - 1) |-> _redact_json(a[i + 1])]

\* run_tests.py 75: [_redact_json(x) for x in obj]
RedactList(a) == [i \in 1..Len(a) |-> _redact_json(a[i])]

_redact_json(obj) ==
    CASE obj.k = "obj" ->
            Obj([key \in DOMAIN obj.m |->
                    IF IsSensitiveKey(key) THEN REDACTED ELSE _redact_json(obj.m[key])])
      [] obj.k = "arr" -> Arr(RedactList(obj.a))
      [] OTHER -> obj

-----------------------------------------------------------------------------
(* Bounded inputs of SpecRedact: documents are grown around a scalar by    *)
(* wrapping, up to MaxDepth containers deep.                               *)

MaxDepth == 3

DocKeys == {K_access_token, K_Code, K_title}
DocScalars == {"null", "tok", "<REDACTED>"}

MaxOf(S) == CHOOSE n \in S : \A m \in S : m <= n

RECURSIVE Depth(_)
Depth(d) ==
    CASE d.k = "obj" ->
            LET ds == {Depth(d.m[key]) : key \in DOMAIN d.m}
            IN  IF ds = {} THEN 1 ELSE 1 + MaxOf(ds)
      [] d.k = "arr" ->
            LET ds == {Depth(d.a[i]) : i \in 1..Len(d.a)}
            IN  IF ds = {} THEN 1 ELSE 1 + MaxOf(ds)
      [] OTHER -> 0

NoDoc == Scalar("none")

-----------------------------------------------------------------------------
(* SpecToken: one resolution of the access token.                          *)

TokenIdle ==
    /\ tk_pc = "idle" /\ tk_arg = None /\ tk_env = None
    /\ tk_file = AbsentFile /\ tk_res = NoResult

TkResolve ==
    /\ tk_pc = "args"
    /\ tk_res' = _resolve_access_token(tk_arg, tk_env, tk_file)
    /\ tk_pc' = "resolved"
    /\ UNCHANGED <<tk_arg, tk_env, tk_file, redactVars, runVars, otherVars>>

-----------------------------------------------------------------------------
(* SpecRedact: build a document, redact it, redact the result.             *)

RedactIdle ==
    /\ rd_pc = "idle" /\ rd_doc = NoDoc /\ rd_out = NoDoc /\ rd_out2 = NoDoc

RdWrapObj(key) ==
    /\ rd_pc = "build"
    /\ Depth(rd_doc) < MaxDepth
    /\ rd_doc' = Obj(key :> rd_doc)
    /\ UNCHANGED <<rd_pc, rd_out, rd_out2, tokenVars, runVars, otherVars>>

RdWrapObj2(key, other) ==
    /\ rd_pc = "build"
    /\ Depth(rd_doc) < MaxDepth
    /\ key # other
    /\ rd_doc' = Obj((key :> rd_doc) @@ (other :> Scalar("tok")))
    /\ UNCHANGED <<rd_pc, rd_out, rd_out2, tokenVars, runVars, otherVars>>

RdWrapArr ==
    /\ rd_pc = "build"
    /\ Depth(rd_doc) < MaxDepth
    /\ rd_doc' \in {Arr(<<rd_doc>>), Arr(<<Scalar("tok"), rd_doc>>)}
    /\ UNCHANGED <<rd_pc, rd_out, rd_out2, tokenVars, runVars, otherVars>>

RdRedact ==
    /\ rd_pc = "build"
    /\ rd_out' = _redact_json(rd_doc)
    /\ rd_pc' = "once"
    /\ UNCHANGED <<rd_doc, rd_out2, tokenVars, runVars, otherVars>>

RdRedactAgain ==
    /\ rd_pc = "once"
    /\ rd_out2' = _redact_json(rd_out)
    /\ rd_pc' = "twice"
    /\ UNCHANGED <<rd_doc, rd_out, tokenVars, runVars, otherVars>>

-----------------------------------------------------------------------------
(* HTTP exchange (run_tests.py 166-226), as far as the tests look at it.   *)
(*                                                                         *)
(* A response is one of                                                    *)
(*   "full"   HTTP 200, a JSON object of the documented shape, holding     *)
(*            every member and identifier the test reads                   *)
(*   "empty"  HTTP 200, a JSON object with an integer status and, for a    *)
(*            listing endpoint, its list present but empty; nothing else   *)
(*   "none"   HTTP 500 (urllib's HTTPError, caught), body not JSON         *)
(*   "404"    HTTP 404 (HTTPError, caught), body not JSON                  *)
(* A network failure (URLError, timeout) is not a response: urlopen raises *)
(* and _http_request lets it through.                                      *)

V1Faults == {"empty", "none"}
Api2Faults == {"empty", "none", "404"}

Status(r) == CASE r = "none" -> 500 [] r = "404" -> 404 [] OTHER -> 200

\* isinstance(resp.json, dict)
IsDict(r) == r \in {"full", "empty"}

\* A request: method, path, the threaded identifiers it carries, the
\* snapshot (test_id of _save_snapshot) its response is saved under, "" if
\* none, the HTTP status it was answered with, 0 while it has not been, and
\* for a request whose response the run reads identifiers from, the response.
Req(m, p, ids, snap) ==
    [m |-> m, p |-> p, ids |-> ids, snap |-> snap, status |-> 0, resp |-> ""]

\* The snapshots of the requests whose response the run reads identifiers from.
IdSources ==
    {"content_items", "content_genres", "content_item_details", "collections_list",
     "content_items_serial", "serial_item_details", "history_list", "device_list",
     "device_info", "bookmarks_create_folder", "api2_items_search", "api2_item_details"}

\* The requests of a routine, the first n of them answered by rs.
Answered(reqs, rs, n) ==
    [i \in 1..Len(reqs) |->
        IF i <= n
        THEN [reqs[i] EXCEPT !.status = Status(rs[i]),
                             !.resp = IF reqs[i].snap \in IdSources THEN rs[i] ELSE ""]
        ELSE reqs[i]]

\* An error message: the place it is about and what is wrong there.
Msg(where, what) == <<where, what>>

RECURSIVE Flatten(_)
Flatten(ss) == IF ss = <<>> THEN <<>> ELSE Head(ss) \o Flatten(Tail(ss))

\* A verdict that tolerates one error message.
StLenient(errs) == IF Len(errs) <= 1 THEN "PASS" ELSE "FAIL"

\* status="PASS" if not errors else "FAIL"
St(errs) == IF errs = <<>> THEN "PASS" ELSE "FAIL"

\* TestOutcome plus the requests the routine issued.
Outcome(errs, reqs) == [st |-> St(errs), errs |-> errs, reqs |-> reqs]
Failed(errs, reqs) == [st |-> "FAIL", errs |-> errs, reqs |-> reqs]
Skipped(what) == [st |-> "SKIP", errs |-> <<Msg("", what)>>, reqs |-> <<>>]

\* The identifiers a "full" response of each endpoint holds.
FullIds ==
    [item |-> 42, genre |-> 3, media |-> 7, collection |-> 9, serial |-> 43,
     season |-> 11, hist_item |-> 44, hist_media |-> 8, device_list |-> 5,
     device_info |-> 6, folder |-> 12, api2_item |-> 45, imdb |-> 88, kinopoisk |-> 99]

\* _require(resp.json is not None, ...) followed by the else: _expect_obj(root)
NotJson(r, label, root) ==
    IF IsDict(r) THEN <<>>
    ELSE <<Msg(label, "response is not JSON"), Msg(root, "expected object")>>

-----------------------------------------------------------------------------
(* The test routines.  rs[i] is the response to the i-th request the       *)
(* routine issues.                                                         *)

\* run_tests.py 337-390
test_oauth_device_flow_pending(rs) ==
    LET r1 == rs[1]
        r2 == rs[2]
        req1 == Req("POST", "/oauth2/device?grant_type=device_code", <<>>, "auth_device_code")
        req2 == Req("POST", "/oauth2/device?grant_type=device_token", <<>>, "auth_device_token_poll")
        e1 == CASE r1 = "full" -> <<>>
                [] r1 = "empty" ->
                    <<Msg("device_code.code", "expected string"),
                      Msg("device_code.user_code", "expected string"),
                      Msg("device_code.verification_uri", "expected string"),
                      Msg("device_code.expires_in", "expected int"),
                      Msg("device_code.interval", "expected int")>>
                [] OTHER -> <<Msg("device_code", "expected JSON object")>>
        e2 == CASE r2 = "full" -> <<>>
                [] r2 = "empty" ->
                    <<Msg("device_token.access_token", "expected string"),
                      Msg("device_token.refresh_token", "expected string"),
                      Msg("device_token.expires_in", "expected int")>>
                [] OTHER -> <<Msg("device_token poll", "expected JSON object")>>
    IN  IF r1 # "full"
        THEN Failed(Append(e1, Msg("device_code", "missing code; cannot test device_token polling")),
                    <<req1>>)
        ELSE Outcome(e1 \o e2, <<req1, req2>>)

\* run_tests.py 311-334
test_user(rs) ==
    LET r == rs[1]
        errs == IF IsDict(r)
                THEN (IF r = "empty" THEN <<Msg("user", "expected object")>> ELSE <<>>)
                ELSE NotJson(r, "", "root")
    IN  Outcome(errs, <<Req("GET", "/v1/user", <<>>, "user_get")>>)

RefNames ==
    <<"server-location", "streaming-type", "voiceover-type", "voiceover-author", "video-quality">>

\* run_tests.py 934-946
test_references(rs) ==
    Outcome(Flatten([i \in 1..Len(RefNames) |-> NotJson(rs[i], RefNames[i], RefNames[i])]),
            [i \in 1..Len(RefNames) |->
                Req("GET", "/v1/references/{name}", <<i>>, "ref_{name}")])

\* The common shape of the listing tests: one GET, the listing may be empty.
ListingTest(r, path, ids, snap, label, root) ==
    Outcome(NotJson(r, label, root), <<Req("GET", path, ids, snap)>>)

\* run_tests.py 949-959
test_tv(rs) == ListingTest(rs[1], "/v1/tv", <<>>, "tv_channels", "tv", "tv.root")

\* run_tests.py 604-621
test_types(rs) == ListingTest(rs[1], "/v1/types", <<>>, "content_types", "", "types.root")

\* run_tests.py 624-647: the outcome and genre_id
test_genres(rs) ==
    [o |-> ListingTest(rs[1], "/v1/genres", <<>>, "content_genres", "", "genres.root"),
     genre_id |-> IF rs[1] = "full" THEN Some(FullIds.genre) ELSE None]

\* run_tests.py 650-667
test_countries(rs) ==
    ListingTest(rs[1], "/v1/countries", <<>>, "content_countries", "", "countries.root")

\* run_tests.py 670-697
test_subtitles(rs) ==
    ListingTest(rs[1], "/v1/subtitles", <<>>, "content_subtitles", "", "subtitles.root")

-----------------------------------------------------------------------------
(* SpecList: test_items_listing on one response (run_tests.py 1183-1241).  *)
(*                                                                         *)
(* A listing response, as far as the probe looks at it: whether the body   *)
(* parsed and to what, the type of its status field, what items is, what   *)
(* items[0] is and the types of its id, title and type, what pagination is *)
(* and the types of its total, current and perpage.                        *)

LiveListing(id) ==
    [json |-> "dict", status |-> "int", items |-> "list", it0 |-> "obj",
     id_ty |-> "int", id |-> id, title |-> "str", type |-> "str",
     pag |-> "obj", total |-> "int", current |-> "int", perpage |-> "int"]

\* The listing behind each kind of answer of the orchestrator's model.
ListingResponse(r, id) ==
    CASE r = "full" -> LiveListing(id)
      [] r = "empty" -> [LiveListing(id) EXCEPT !.items = "empty"]
      [] OTHER -> [LiveListing(id) EXCEPT !.json = "none"]

\* _require(isinstance(x, ...), f"{where}: expected ...", errors)
Expect(ty, wanted, where, what) == IF ty = wanted THEN <<>> ELSE <<Msg(where, what)>>

\* run_tests.py 1222-1237: the checks on a JSON object
ListingShapeErrors(resp) ==
    (IF resp.status \notin {"absent", "null"}
     THEN Expect(resp.status, "int", "status", "expected int") ELSE <<>>)
    \o (IF resp.items \in {"empty", "list"} THEN <<>>
        ELSE <<Msg("items", "expected array")>>)
    \o (IF resp.items = "list"
        THEN Expect(resp.it0, "obj", "items[0]", "expected object")
             \o (IF resp.it0 = "obj"
                 THEN Expect(resp.id_ty, "int", "items[0].id", "expected int")
                      \o Expect(resp.title, "str", "items[0].title", "expected string")
                      \o Expect(resp.type, "str", "items[0].type", "expected string")
                 ELSE <<>>)
        ELSE <<>>)
    \o (IF resp.pag \notin {"absent", "null"}
        THEN Expect(resp.pag, "obj", "pagination", "expected object")
             \o (IF resp.pag = "obj"
                 THEN Expect(resp.total, "int", "pagination.total", "expected int")
                      \o Expect(resp.current, "int", "pagination.current", "expected int")
                      \o Expect(resp.perpage, "int", "pagination.perpage", "expected int")
                 ELSE <<>>)
        ELSE <<>>)

PICK_FAILED == "could not pick itemId from /v1/items response"

\* The listing responses of SpecList: every combination the probe tells apart.
ListingResponses ==
    {[LiveListing(42) EXCEPT !.json = j] : j \in {"none", "list"}}
    \cup {[LiveListing(42) EXCEPT !.status = st, !.items = it, !.pag = pg] :
            st \in {"absent", "null", "int", "str"}, it \in {"absent", "str", "empty"},
            pg \in {"absent", "null", "str", "obj"}}
    \cup {[LiveListing(42) EXCEPT !.status = st, !.it0 = "str", !.pag = pg] :
            st \in {"absent", "int", "str"}, pg \in {"absent", "obj"}}
    \cup {[LiveListing(42) EXCEPT !.status = st, !.id_ty = idt, !.title = ti, !.type = ty,
                                  !.pag = pg] :
            st \in {"absent", "null", "int", "str"},
            idt \in {"int", "bool", "str", "absent"}, ti \in {"str", "absent"},
            ty \in {"str", "int"}, pg \in {"absent", "null", "str", "obj"}}
    \cup {[LiveListing(42) EXCEPT !.total = a, !.current = b, !.perpage = c] :
            a \in {"int", "str"}, b \in {"int", "absent"}, c \in {"int", "str"}}

NoListingResult == [o |-> Skipped(""), item_id |-> None]

ListIdle == li_pc = "idle" /\ li_resp = LiveListing(0) /\ li_out = NoListingResult

\* run_tests.py 1183-1190 (isinstance(True, int) holds in Python)
_pick_first_item_id(resp) ==
    IF /\ resp.json = "dict" /\ resp.items = "list"
       /\ resp.it0 = "obj" /\ resp.id_ty \in {"int", "bool"}
    THEN Some(resp.id) ELSE None

\* run_tests.py 1219-1237, with 1238-1239 left out: no extraction-failure
\* message.
ItemsListingErrorsNoPick(resp, item_id) ==
    (IF resp.json = "none" THEN <<Msg("", "response is not JSON")>> ELSE <<>>)
    \o (IF resp.json = "dict" THEN ListingShapeErrors(resp)
        ELSE <<Msg("root", "expected object")>>)

\* run_tests.py 1219-1239: the error list of test_items_listing
ItemsListingErrors(resp, item_id) ==
    (IF resp.json = "none" THEN <<Msg("", "response is not JSON")>> ELSE <<>>)
    \o (IF resp.json = "dict" THEN ListingShapeErrors(resp)
        ELSE <<Msg("root", "expected object")>>)
    \o (IF item_id = None THEN <<Msg("", PICK_FAILED)>> ELSE <<>>)

\* run_tests.py 1193-1241, from the response on: the outcome and item_id
test_items_listing_on(resp) ==
    LET item_id == _pick_first_item_id(resp) IN
    [o |-> Outcome(ItemsListingErrors(resp, item_id),
                   <<Req("GET", "/v1/items?type=movie", <<>>, "content_items")>>),
     item_id |-> item_id]

\* run_tests.py 1193-1241: the outcome and item_id
test_items_listing(rs) == test_items_listing_on(ListingResponse(rs[1], FullIds.item))

LiReturn ==
    /\ li_pc = "call"
    /\ li_out' = test_items_listing_on(li_resp)
    /\ li_pc' = "returned"
    /\ UNCHANGED <<li_resp, tokenVars, redactVars, runVars, snapVars, flowVars, laterVars>>

\* run_tests.py 1244-1284
test_items_listing_filters(rs) ==
    LET r == rs[1]
        errs == (IF Status(r) # 200
                 THEN <<Msg("items filters", "expected HTTP 200")>> ELSE <<>>)
                \o NotJson(r, "items filters", "items_filters.root")
    IN  Outcome(errs, <<Req("GET", "/v1/items?title=", <<>>, "content_items_filters")>>)

\* run_tests.py 1320-1350: the outcome and media_id
test_item_details(rs, item_id) ==
    LET r == rs[1]
        media_id == IF r = "full" THEN Some(FullIds.media) ELSE None
        errs == (IF IsDict(r)
                 THEN (IF r = "empty" THEN <<Msg("item", "expected object")>> ELSE <<>>)
                 ELSE NotJson(r, "", "root"))
                \o (IF media_id = None
                    THEN <<Msg("", "could not pick mediaId from item details")>> ELSE <<>>)
    IN  [o |-> Outcome(errs, <<Req("GET", "/v1/items/{id}", <<item_id>>, "content_item_details")>>),
         media_id |-> media_id]

\* run_tests.py 700-715
test_search(rs) ==
    ListingTest(rs[1], "/v1/items/search", <<>>, "content_search", "", "root")

\* run_tests.py 718-733
test_similar(rs, item_id) ==
    ListingTest(rs[1], "/v1/items/similar", <<item_id>>, "content_similar", "", "root")

Shortcuts == <<"fresh", "hot", "popular">>

ShortcutPath(name) ==
    CASE name = "fresh" -> "/v1/items/fresh" [] name = "hot" -> "/v1/items/hot"
      [] OTHER -> "/v1/items/popular"

ShortcutSnap(name, genre) ==
    CASE name = "fresh" -> (IF genre = None THEN "content_fresh" ELSE "content_fresh_genre")
      [] name = "hot" -> (IF genre = None THEN "content_hot" ELSE "content_hot_genre")
      [] OTHER -> (IF genre = None THEN "content_popular" ELSE "content_popular_genre")

\* run_tests.py 736-756
test_shortcut(rs, name, genre) ==
    ListingTest(rs[1], ShortcutPath(name), genre, ShortcutSnap(name, genre), "", "root")

\* run_tests.py 759-799
test_trailer(rs, item_id) ==
    ListingTest(rs[1], "/v1/items/trailer", <<item_id>>, "content_trailer", "", "root")

\* run_tests.py 802-818
test_comments(rs, item_id) ==
    ListingTest(rs[1], "/v1/items/comments", <<item_id>>, "content_comments", "", "root")

\* run_tests.py 821-835
test_vote_mutating(rs, item_id) ==
    LET r == rs[1]
        errs == IF IsDict(r)
                THEN (IF r = "empty" THEN <<Msg("voted", "expected bool")>> ELSE <<>>)
                ELSE NotJson(r, "", "root")
    IN  Outcome(errs, <<Req("GET", "/v1/items/vote", <<item_id>>, "content_vote_like")>>)

\* run_tests.py 1353-1386: the outcome and whether a file was picked
test_media_links(rs, media_id) ==
    [o |-> ListingTest(rs[1], "/v1/items/media-links", <<media_id>>, "content_media_links",
                       "", "root"),
     file_and_type |-> IF rs[1] = "full" THEN Some("file") ELSE None]

\* run_tests.py 1389-1409
test_media_video_link(rs) ==
    LET r == rs[1]
        errs == IF IsDict(r)
                THEN (IF r = "empty" THEN <<Msg("url", "expected string")>> ELSE <<>>)
                ELSE NotJson(r, "", "root")
    IN  Outcome(errs, <<Req("GET", "/v1/items/media-video-link", <<>>, "content_media_video_link")>>)

\* run_tests.py 838-860: the outcome and collection_id
test_collections(rs) ==
    LET r == rs[1]
        collection_id == IF r = "full" THEN Some(FullIds.collection) ELSE None
        errs == NotJson(r, "", "root")
                \o (IF collection_id = None
                    THEN <<Msg("", "could not pick collectionId from /v1/collections")>>
                    ELSE <<>>)
    IN  [o |-> Outcome(errs, <<Req("GET", "/v1/collections", <<>>, "collections_list")>>),
         collection_id |-> collection_id]

SortCandidates == <<"updated-", "created-", "views-", "watchers-">>

\* run_tests.py 877-880: the candidate's response is a normal {items: []} payload
SortAccepted(r) == Status(r) = 200 /\ IsDict(r)

\* run_tests.py 863-913 with every candidate's response saved, under the
\* name of the final one.
test_collections_sort_save_all(rs) ==
    LET n == Len(SortCandidates)
        tried == IF \E i \in 1..n : SortAccepted(rs[i])
                 THEN CHOOSE i \in 1..n :
                        SortAccepted(rs[i]) /\ \A j \in 1..(i - 1) : ~SortAccepted(rs[j])
                 ELSE n
        used == \E i \in 1..n : SortAccepted(rs[i])
        cand(i, snap) == Req("GET", "/v1/collections?sort=", <<i>>, snap)
        rok == rs[tried + 1]
        errs == (IF Status(rok) # 200
                 THEN <<Msg("collections sort", "expected HTTP 200")>> ELSE <<>>)
                \o NotJson(rok, "collections sort", "collections.sort.root")
    IN  IF ~used
        THEN Failed(<<Msg("collections sort", "none of the candidate sort values returned a normal payload")>>,
                    [i \in 1..n |-> cand(i, "collections_list_sort")])
        ELSE Outcome(errs, [i \in 1..(tried + 1) |->
                              IF i <= tried THEN cand(i, "collections_list_sort")
                              ELSE cand(tried, "collections_list_sort")])

\* run_tests.py 863-913
test_collections_sort(rs) ==
    LET n == Len(SortCandidates)
        tried == IF \E i \in 1..n : SortAccepted(rs[i])
                 THEN CHOOSE i \in 1..n :
                        SortAccepted(rs[i]) /\ \A j \in 1..(i - 1) : ~SortAccepted(rs[j])
                 ELSE n
        used == \E i \in 1..n : SortAccepted(rs[i])
        cand(i, snap) == Req("GET", "/v1/collections?sort=", <<i>>, snap)
        rok == rs[tried + 1]
        errs == (IF Status(rok) # 200
                 THEN <<Msg("collections sort", "expected HTTP 200")>> ELSE <<>>)
                \o NotJson(rok, "collections sort", "collections.sort.root")
    IN  IF ~used
        THEN Failed(<<Msg("collections sort", "none of the candidate sort values returned a normal payload")>>,
                    [i \in 1..n |-> cand(i, IF i = n THEN "collections_list_sort" ELSE "")])
        ELSE Outcome(errs, [i \in 1..(tried + 1) |->
                              IF i <= tried THEN cand(i, "")
                              ELSE cand(tried, "collections_list_sort")])

\* run_tests.py 916-931
test_collection_items(rs, collection_id) ==
    ListingTest(rs[1], "/v1/collections/view", <<collection_id>>, "collections_view", "", "root")

\* run_tests.py 1412-1482
test_bookmarks_mutating(rs, item_id) ==
    LET folder == FullIds.folder
        reqs ==
            <<Req("GET", "/v1/bookmarks", <<>>, "bookmarks_list_before"),
              Req("POST", "/v1/bookmarks/create", <<>>, "bookmarks_create_folder"),
              Req("GET", "/v1/bookmarks", <<>>, "bookmarks_list_after"),
              Req("POST", "/v1/bookmarks/add", <<item_id, folder>>, "bookmarks_add_item"),
              Req("GET", "/v1/bookmarks/{folder}", <<folder>>, "bookmarks_folder_items"),
              Req("GET", "/v1/bookmarks/get-item-folders", <<item_id>>, "bookmarks_item_folders"),
              Req("POST", "/v1/bookmarks/remove-item", <<item_id, folder>>, "bookmarks_remove_item"),
              Req("POST", "/v1/bookmarks/remove-folder", <<folder>>, "bookmarks_remove_folder")>>
        bad(i, what) == IF IsDict(rs[i]) THEN <<>> ELSE <<Msg("bookmarks", what)>>
        e1 == bad(1, "list: unexpected response (expected object with items[])")
        e3 == CASE rs[3] = "full" -> <<>>
                [] rs[3] = "empty" ->
                    <<Msg("bookmarks", "list: created folder not found in items[]")>>
                [] OTHER -> <<Msg("bookmarks", "list: unexpected response after create")>>
    IN  IF rs[2] # "full"
        THEN Failed(Append(e1, Msg("bookmarks", "failed to create bookmark folder (no folder.id)")),
                    SubSeq(reqs, 1, 2))
        ELSE Outcome(e1 \o e3
                     \o bad(4, "add: unexpected response (expected object with status)")
                     \o bad(5, "folder items: unexpected response (expected object with items[])")
                     \o bad(6, "get-item-folders: unexpected response (expected object with folders[])")
                     \o bad(7, "remove-item: unexpected response (expected object with status)")
                     \o bad(8, "remove-folder: unexpected response (expected object with status)"),
                     reqs)

\* run_tests.py 962-983
test_watching(rs, item_id) ==
    Outcome(NotJson(rs[1], "watching", "watching.root")
            \o NotJson(rs[2], "watching/movies", "watching/movies.root")
            \o NotJson(rs[3], "watching/serials", "watching/serials.root"),
            <<Req("GET", "/v1/watching", <<item_id>>, "watching_info"),
              Req("GET", "/v1/watching/movies", <<>>, "watching_movies"),
              Req("GET", "/v1/watching/serials", <<>>, "watching_serials")>>)

\* _require(isinstance(r.json, dict) and isinstance(r.json.get("status"), int), ...)
StatusObject(r, label) == IF IsDict(r) THEN <<>> ELSE <<Msg(label, "expected {status:int}")>>

\* run_tests.py 986-998
test_watching_mutating(rs, item_id, media_id) ==
    Outcome(StatusObject(rs[1], "marktime") \o StatusObject(rs[2], "toggle"),
            <<Req("GET", "/v1/watching/marktime", <<item_id, media_id>>, "watching_marktime"),
              Req("GET", "/v1/watching/toggle", <<item_id, media_id>>, "watching_toggle")>>)

\* run_tests.py 1001-1008
test_watchlist_toggle_mutating(rs, serial_item_id) ==
    Outcome(StatusObject(rs[1], "togglewatchlist") \o StatusObject(rs[2], "togglewatchlist"),
            <<Req("GET", "/v1/watching/togglewatchlist", <<serial_item_id>>, "watchlist_toggle_1"),
              Req("GET", "/v1/watching/togglewatchlist", <<serial_item_id>>, "watchlist_toggle_2")>>)

\* run_tests.py 1011-1036: the outcome and the picked media and item ids
test_history(rs) ==
    [o |-> ListingTest(rs[1], "/v1/history", <<>>, "history_list", "history", "history.root"),
     media_id |-> IF rs[1] = "full" THEN Some(FullIds.hist_media) ELSE None,
     item_id |-> IF rs[1] = "full" THEN Some(FullIds.hist_item) ELSE None]

\* One clear step of test_history_mutating (run_tests.py 1042-1047, 1049-1054,
\* 1056-1061): the request if the identifier is there, and the message.
ClearStep(r, id, path, snap, label) ==
    IF id # None
    THEN [reqs |-> <<Req("POST", path, id, snap)>>,
          errs |-> IF Status(r) = 200 THEN <<>>
                   ELSE <<Msg(label, "expected HTTP 200 with JSON null (or {status:int})")>>]
    ELSE [reqs |-> <<>>, errs |-> <<Msg(label, "skipped: no id available")>>]

\* run_tests.py 1039-1063
test_history_mutating(rs, media_id, season_id, item_id) ==
    LET s1 == ClearStep(rs[1], media_id, "/v1/history/clear-for-media",
                        "history_clear_for_media", "clear-for-media")
        n1 == Len(s1.reqs)
        s2 == ClearStep(rs[n1 + 1], season_id, "/v1/history/clear-for-season",
                        "history_clear_for_season", "clear-for-season")
        n2 == n1 + Len(s2.reqs)
        s3 == ClearStep(rs[n2 + 1], item_id, "/v1/history/clear-for-item",
                        "history_clear_for_item", "clear-for-item")
    IN  Outcome(s1.errs \o s2.errs \o s3.errs, s1.reqs \o s2.reqs \o s3.reqs)

\* run_tests.py 1066-1118: the outcome and device_id
test_device(rs) ==
    LET device_id == CASE rs[2] = "full" -> Some(FullIds.device_info)
                       [] rs[1] = "full" -> Some(FullIds.device_list)
                       [] OTHER -> None
        e12 == NotJson(rs[1], "device", "device.root")
               \o NotJson(rs[2], "device/info", "device/info.root")
        reqs12 == <<Req("GET", "/v1/device", <<>>, "device_list"),
                    Req("GET", "/v1/device/info", <<>>, "device_info")>>
    IN  IF device_id = None
        THEN [o |-> Failed(Append(e12, Msg("", "could not pick deviceId from /v1/device or /v1/device/info")),
                           reqs12),
              device_id |-> None]
        ELSE [o |-> Outcome(e12
                            \o (IF IsDict(rs[3]) THEN <<>>
                                ELSE <<Msg("device/{id}", "response is not JSON")>>)
                            \o NotJson(rs[4], "device/{id}/settings", "device/settings.root"),
                            reqs12
                            \o <<Req("GET", "/v1/device/{id}", device_id, "device_get"),
                                 Req("GET", "/v1/device/{id}/settings", device_id, "device_settings_get")>>),
              device_id |-> device_id]

\* run_tests.py 1147-1180
test_device_mutating(rs, device_id) ==
    LET e1 == StatusObject(rs[1], "device/notify")
        reqs12 == <<Req("POST", "/v1/device/notify", <<>>, "device_notify"),
                    Req("GET", "/v1/device/{id}/settings", <<device_id>>, "")>>
    IN  IF rs[2] # "full"
        THEN Failed(Append(e1, Msg("device settings update", "skipped: could not extract int value")),
                    reqs12)
        ELSE Outcome(e1 \o StatusObject(rs[3], "device settings update"),
                     Append(reqs12, Req("POST", "/v1/device/{id}/settings", <<device_id>>,
                                        "device_settings_update")))

\* run_tests.py 393-421: the outcome and the api2 item id
test_api2_items_search(rs) ==
    LET r == rs[1]
        item_id == IF r = "full" THEN Some(FullIds.api2_item) ELSE None
        errs == IF IsDict(r)
                THEN (IF item_id = None
                      THEN <<Msg("api2 search", "could not pick itemId from items[]")>>
                      ELSE <<>>)
                ELSE NotJson(r, "api2 search", "api2 search root")
    IN  [o |-> Outcome(errs, <<Req("GET", "api2/v1.1/items/search", <<>>, "api2_items_search")>>),
         item_id |-> item_id]

\* run_tests.py 424-458: the outcome and context_updates
test_api2_item_details(rs, item_id) ==
    [o |-> ListingTest(rs[1], "api2/v1.1/items/{id}", <<item_id>>, "api2_item_details",
                       "api2 item", "api2 item root"),
     imdb_id |-> IF rs[1] = "full" THEN Some(FullIds.imdb) ELSE None,
     kinopoisk_id |-> IF rs[1] = "full" THEN Some(FullIds.kinopoisk) ELSE None]

\* run_tests.py 558-578
test_api2_item_collections(rs, item_id) ==
    ListingTest(rs[1], "api2/v1.1/items/collections/{id}", <<item_id>>, "api2_item_collections",
                "api2 item collections", "api2 collections root")

\* run_tests.py 461-485
test_api2_backdrop(rs, imdb_id, kinopoisk_id) ==
    LET reqs == <<Req("GET", "api2/v1/backdrop/{id}", <<imdb_id, kinopoisk_id>>, "api2_backdrop")>>
    IN  IF Status(rs[1]) = 404
        THEN [st |-> "SKIP", errs |-> <<Msg("api2 backdrop", "returned 404")>>, reqs |-> reqs]
        ELSE Outcome(IF Status(rs[1]) # 200
                     THEN <<Msg("api2 backdrop", "expected HTTP 200 (or 404)")>> ELSE <<>>,
                     reqs)

\* run_tests.py 581-602
test_api2_imdb(rs, imdb_id) ==
    LET reqs == <<Req("GET", "api2/v1/imdb/{id}", <<imdb_id>>, "api2_imdb")>>
    IN  IF Status(rs[1]) = 404
        THEN [st |-> "SKIP", errs |-> <<Msg("api2 imdb", "returned 404")>>, reqs |-> reqs]
        ELSE Outcome((IF Status(rs[1]) # 200
                      THEN <<Msg("api2 imdb", "expected HTTP 200 (or 404)")>> ELSE <<>>)
                     \o (IF IsDict(rs[1]) THEN <<>>
                         ELSE <<Msg("api2 imdb", "response is not JSON")>>),
                     reqs)

Expect200(r, label) == IF Status(r) = 200 THEN <<>> ELSE <<Msg(label, "expected HTTP 200")>>

\* run_tests.py 488-530
test_api2_notifications_mutating(rs, item_id) ==
    Outcome(Expect200(rs[1], "api2 notifications add")
            \o Expect200(rs[2], "api2 notifications check")
            \o Expect200(rs[3], "api2 notifications delete"),
            <<Req("GET", "api2/v1.1/notifications/add/{id}", <<item_id>>, "api2_notifications_add"),
              Req("GET", "api2/v1.1/notifications/{id}", <<item_id>>, "api2_notifications_check"),
              Req("GET", "api2/v1.1/notifications/delete/{id}", <<item_id>>, "api2_notifications_delete")>>)

\* run_tests.py 533-555
test_api2_upload_report(rs) ==
    Outcome(IF Status(rs[1]) = 200 THEN <<>>
            ELSE <<Msg("api2 upload_report", "expected HTTP 200/201/204")>>,
            <<Req("POST", "api2/v1/upload_report/{filename}", <<>>, "api2_upload_report")>>)

-----------------------------------------------------------------------------
(* Responses handed to a routine: at most `left` of its n responses are    *)
(* not the documented one.                                                 *)

MaxFaults == 1

AllFull(n) == [i \in 1..n |-> "full"]

RECURSIVE Patterns(_, _, _)
Patterns(n, left, kinds) ==
    IF left <= 0 THEN {AllFull(n)}
    ELSE LET fewer == Patterns(n, left - 1, kinds) IN
         fewer \cup {[p EXCEPT ![i] = k] : p \in fewer, i \in 1..n, k \in kinds}

NotFull(rs, upto) == Cardinality({i \in 1..upto : rs[i] # "full"})

\* The response patterns a routine that issues at most n requests may meet.
Responses(n, kinds) == Patterns(n, MaxFaults - faults, kinds)

-----------------------------------------------------------------------------
(* The orchestrator _run_all (run_tests.py 1485-1738).                     *)

NoCtx ==
    [item_id |-> None, genre_id |-> None, media_id |-> None, file_and_type |-> None,
     col_id |-> None, serial_item_id |-> None, season_id |-> None,
     picked_media_id |-> None, picked_item_id |-> None, dev_id |-> None,
     api2_item_id |-> None, imdb_id |-> None, kp_id |-> None]

RunIdle ==
    /\ pc = "idle"
    /\ include_mutating = FALSE /\ include_destructive = FALSE /\ include_api2 = FALSE
    /\ has_client = None /\ api2_device_token = None /\ api2_upload_report = None
    /\ token = None /\ results = <<>> /\ requests = <<>> /\ summary = <<>>
    /\ exit_code = None /\ ctx = NoCtx /\ faults = 0

flagVars == <<include_mutating, include_destructive, include_api2>>

\* Arguments _run_all reads once, at one place: optional, None until read.
argVars == <<has_client, api2_device_token, api2_upload_report>>

\* add(test_id, outcome), after the routine returned: its requests were
\* issued, and rs[1..Len(o.reqs)] were the responses.
Add(test_id, o, rs, next, newctx) ==
    /\ \A i \in (Len(o.reqs) + 1)..Len(rs) : rs[i] = "full"
    /\ results' = Append(results, <<test_id, o.st, o.errs>>)
    /\ requests' = requests \o Answered(o.reqs, rs, Len(o.reqs))
    /\ faults' = faults + NotFull(rs, Len(o.reqs))
    /\ ctx' = newctx
    /\ pc' = next
    /\ UNCHANGED <<token, summary, exit_code, flagVars, tokenVars, redactVars, otherVars>>

\* add(test_id, TestOutcome(status="SKIP", ...)): no routine is called.
AddSkip(test_id, what, next) ==
    /\ results' = Append(results, <<test_id, "SKIP", <<Msg("", what)>>>>)
    /\ pc' = next
    /\ UNCHANGED <<requests, faults, ctx, token, summary, exit_code, flagVars,
                   tokenVars, redactVars, otherVars>>

\* urlopen raises in the k-th request of the routine (URLError, timeout):
\* nothing catches it, the exception leaves _run_all.
Raise(o, rs, k) ==
    /\ k \in 1..Len(o.reqs)
    /\ \A i \in k..Len(rs) : rs[i] = "full"
    /\ requests' = requests \o [i \in 1..k |->
                                  IF i = k THEN [o.reqs[i] EXCEPT !.snap = ""]
                                  ELSE Answered(o.reqs, rs, k - 1)[i]]
    /\ faults' = faults + NotFull(rs, k - 1)
    /\ pc' = "raised"
    /\ UNCHANGED <<results, ctx, token, summary, exit_code, flagVars, tokenVars, redactVars, otherVars>>

\* A routine returns and its outcome is added, or one of its requests raises.
Call(test_id, o, rs, next, newctx) ==
    \/ Add(test_id, o, rs, next, newctx)
    \/ \E k \in 1..Len(o.reqs) : Raise(o, rs, k)

\* No step at this position: the orchestrator goes on.
Pass(next) ==
    /\ pc' = next
    /\ UNCHANGED <<results, requests, faults, ctx, token, summary, exit_code, flagVars,
                   tokenVars, redactVars, otherVars>>

MUTATING_DISABLED == "mutating tests disabled (enable with --include-mutating)"
DESTRUCTIVE_DISABLED == "destructive tests disabled (enable with --include-destructive)"

\* Token inputs of a run: each source holds the token or nothing.
RunTokenArgs == {None, Some(<<"t">>)}
RunTokenEnvs == {None, Some(<<"t">>)}
RunTokenFiles == {AbsentFile, TextFile(<<"t">>)}

\* Python's `a or b` on optional integers.
PyOrId(a, b) == IF a # None /\ a[1] # 0 THEN a ELSE b

\* run_tests.py 1738, with SKIP counted as a failure.
FinalExitPassOnly(res) == IF \A i \in 1..Len(res) : res[i][2] = "PASS" THEN 0 ELSE 1

\* run_tests.py 1738: 0 if all(s != "FAIL" for _, s, _ in results) else 1
FinalExit(res) == IF \A i \in 1..Len(res) : res[i][2] # "FAIL" THEN 0 ELSE 1

\* run_tests.py 1508-1522 without the return at 1520-1522: the run goes on
\* with no token.
ResolveTokenNoReturn ==
    /\ pc = "start"
    /\ UNCHANGED argVars
    /\ \E ta \in RunTokenArgs, env \in RunTokenEnvs, tf \in RunTokenFiles :
        token' = _resolve_access_token(ta, env, tf).token
    /\ pc' = "auth"
    /\ UNCHANGED <<results, requests, summary, exit_code, ctx, faults, flagVars, tokenVars,
                   redactVars, otherVars>>

\* run_tests.py 1508-1522
ResolveToken ==
    /\ pc = "start"
    /\ UNCHANGED argVars
    /\ \E ta \in RunTokenArgs, env \in RunTokenEnvs, tf \in RunTokenFiles :
        LET r == _resolve_access_token(ta, env, tf) IN
        /\ token' = r.token
        /\ IF r.token = None
           THEN exit_code' = Some(2) /\ pc' = "done"
           ELSE exit_code' = exit_code /\ pc' = "auth"
    /\ UNCHANGED <<results, requests, summary, ctx, faults, flagVars, tokenVars, redactVars, otherVars>>

\* run_tests.py 1530-1533
RunAuth ==
    /\ pc = "auth"
    /\ has_client' \in {Some(TRUE), Some(FALSE)}
    /\ UNCHANGED <<api2_device_token, api2_upload_report>>
    /\ \/ /\ has_client' = Some(TRUE)
          /\ \E rs \in Responses(2, V1Faults) :
                Call("test-auth-oauth2-device-flow", test_oauth_device_flow_pending(rs), rs,
                     "user", ctx)
       \/ /\ has_client' = Some(FALSE)
          /\ AddSkip("test-auth-oauth2-device-flow", "client_id/client_secret not available",
                     "user")

\* run_tests.py 1535
RunUser ==
    /\ pc = "user"
    /\ UNCHANGED argVars
    /\ \E rs \in Responses(1, V1Faults) : Call("test-user", test_user(rs), rs, "references", ctx)

\* run_tests.py 1538
RunReferences ==
    /\ pc = "references"
    /\ UNCHANGED argVars
    /\ \E rs \in Responses(5, V1Faults) :
            Call("test-references", test_references(rs), rs, "tv", ctx)

\* run_tests.py 1539
RunTv ==
    /\ pc = "tv"
    /\ UNCHANGED argVars
    /\ \E rs \in Responses(1, V1Faults) : Call("test-tv", test_tv(rs), rs, "types", ctx)

\* run_tests.py 1542
RunTypes ==
    /\ pc = "types"
    /\ UNCHANGED argVars
    /\ \E rs \in Responses(1, V1Faults) :
            Call("test-content-types", test_types(rs), rs, "genres", ctx)

\* run_tests.py 1543-1544
RunGenres ==
    /\ pc = "genres"
    /\ UNCHANGED argVars
    /\ \E rs \in Responses(1, V1Faults) :
            LET t == test_genres(rs) IN
            Call("test-content-genres", t.o, rs, "countries", [ctx EXCEPT !.genre_id = t.genre_id])

\* run_tests.py 1545
RunCountries ==
    /\ pc = "countries"
    /\ UNCHANGED argVars
    /\ \E rs \in Responses(1, V1Faults) :
            Call("test-content-countries", test_countries(rs), rs, "subtitles", ctx)

\* run_tests.py 1546
RunSubtitles ==
    /\ pc = "subtitles"
    /\ UNCHANGED argVars
    /\ \E rs \in Responses(1, V1Faults) :
            Call("test-content-subtitles", test_subtitles(rs), rs, "items", ctx)

\* run_tests.py 1549-1550
RunItemsListing ==
    /\ pc = "items"
    /\ UNCHANGED argVars
    /\ \E rs \in Responses(1, V1Faults) :
            LET t == test_items_listing(rs) IN
            Call("test-content-items", t.o, rs, "filters", [ctx EXCEPT !.item_id = t.item_id])

\* run_tests.py 1551
RunItemsFilters ==
    /\ pc = "filters"
    /\ UNCHANGED argVars
    /\ \E rs \in Responses(1, V1Faults) :
            Call("test-content-items-filters", test_items_listing_filters(rs), rs,
                 "item-details", ctx)

\* run_tests.py 1553-1557
EarlyReturn ==
    /\ pc = "item-details"
    /\ UNCHANGED argVars
    /\ ctx.item_id = None
    /\ summary' = Append(summary, results)
    /\ exit_code' = Some(1)
    /\ pc' = "done"
    /\ UNCHANGED <<results, requests, faults, ctx, token, flagVars, tokenVars, redactVars, otherVars>>

\* run_tests.py 1559-1560
RunItemDetails ==
    /\ pc = "item-details"
    /\ UNCHANGED argVars
    /\ ctx.item_id # None
    /\ \E rs \in Responses(1, V1Faults) :
            LET t == test_item_details(rs, ctx.item_id[1]) IN
            Call("test-content-item-details", t.o, rs, "search",
                 [ctx EXCEPT !.media_id = t.media_id])

\* run_tests.py 1563
RunSearch ==
    /\ pc = "search"
    /\ UNCHANGED argVars
    /\ \E rs \in Responses(1, V1Faults) :
            Call("test-content-search", test_search(rs), rs, "similar", ctx)

\* run_tests.py 1564
RunSimilar ==
    /\ pc = "similar"
    /\ UNCHANGED argVars
    /\ \E rs \in Responses(1, V1Faults) :
            Call("test-content-similar", test_similar(rs, ctx.item_id[1]), rs, "fresh", ctx)

ShortcutTestId == <<"test-content-fresh", "test-content-hot", "test-content-popular">>
ShortcutGenrePc == <<"fresh-genre", "hot-genre", "popular-genre">>
ShortcutGenreTestId ==
    <<"test-content-fresh-genre", "test-content-hot-genre", "test-content-popular-genre">>
ShortcutNextPc == <<"hot", "popular", "trailer">>

\* run_tests.py 1565-1566
RunShortcut(i) ==
    /\ pc = Shortcuts[i]
    /\ UNCHANGED argVars
    /\ \E rs \in Responses(1, V1Faults) :
            Call(ShortcutTestId[i], test_shortcut(rs, Shortcuts[i], None), rs,
                 ShortcutGenrePc[i], ctx)

\* run_tests.py 1567-1570
RunShortcutGenre(i) ==
    /\ pc = ShortcutGenrePc[i]
    /\ UNCHANGED argVars
    /\ \/ /\ ctx.genre_id # None
          /\ \E rs \in Responses(1, V1Faults) :
                Call(ShortcutGenreTestId[i], test_shortcut(rs, Shortcuts[i], ctx.genre_id), rs,
                     ShortcutNextPc[i], ctx)
       \/ /\ ctx.genre_id = None
          /\ AddSkip(ShortcutGenreTestId[i], "could not pick genre_id from /v1/genres",
                     ShortcutNextPc[i])

\* run_tests.py 1573
RunTrailer ==
    /\ pc = "trailer"
    /\ UNCHANGED argVars
    /\ \E rs \in Responses(1, V1Faults) :
            Call("test-content-trailer", test_trailer(rs, ctx.item_id[1]), rs, "comments", ctx)

\* run_tests.py 1574
RunComments ==
    /\ pc = "comments"
    /\ UNCHANGED argVars
    /\ \E rs \in Responses(1, V1Faults) :
            Call("test-content-comments", test_comments(rs, ctx.item_id[1]), rs, "vote", ctx)

\* run_tests.py 1575-1581 without the test at 1575: the vote is cast whatever
\* include_mutating says.
RunVoteUngated ==
    /\ pc = "vote"
    /\ UNCHANGED argVars
    /\ \E rs \in Responses(1, V1Faults) :
          Call("test-content-vote-mutating", test_vote_mutating(rs, ctx.item_id[1]), rs,
               "media-links", ctx)

\* run_tests.py 1575-1581
RunVote ==
    /\ pc = "vote"
    /\ UNCHANGED argVars
    /\ \/ /\ include_mutating
          /\ \E rs \in Responses(1, V1Faults) :
                Call("test-content-vote-mutating", test_vote_mutating(rs, ctx.item_id[1]), rs,
                     "media-links", ctx)
       \/ /\ ~include_mutating
          /\ AddSkip("test-content-vote-mutating", MUTATING_DISABLED, "media-links")

\* run_tests.py 1583-1585
RunMediaLinks ==
    /\ pc = "media-links"
    /\ UNCHANGED argVars
    /\ \/ /\ ctx.media_id # None
          /\ \E rs \in Responses(1, V1Faults) :
                LET t == test_media_links(rs, ctx.media_id[1]) IN
                Call("test-content-media-links", t.o, rs, "media-video-link",
                     [ctx EXCEPT !.file_and_type = t.file_and_type])
       \/ /\ ctx.media_id = None
          /\ Pass("collections")

\* run_tests.py 1586-1589
RunMediaVideoLink ==
    /\ pc = "media-video-link"
    /\ UNCHANGED argVars
    /\ \/ /\ ctx.file_and_type # None
          /\ \E rs \in Responses(1, V1Faults) :
                Call("test-content-media-video-link", test_media_video_link(rs), rs,
                     "collections", ctx)
       \/ /\ ctx.file_and_type = None
          /\ Pass("collections")

\* run_tests.py 1592-1593
RunCollections ==
    /\ pc = "collections"
    /\ UNCHANGED argVars
    /\ \E rs \in Responses(1, V1Faults) :
            LET t == test_collections(rs) IN
            Call("test-collections", t.o, rs, "collections-sort",
                 [ctx EXCEPT !.col_id = t.collection_id])

\* run_tests.py 1594
RunCollectionsSort ==
    /\ pc = "collections-sort"
    /\ UNCHANGED argVars
    /\ \E rs \in Responses(Len(SortCandidates) + 1, V1Faults) :
            Call("test-collections-sort", test_collections_sort(rs), rs, "collections-view", ctx)

\* run_tests.py 1595-1596
RunCollectionsView ==
    /\ pc = "collections-view"
    /\ UNCHANGED argVars
    /\ \/ /\ ctx.col_id # None
          /\ \E rs \in Responses(1, V1Faults) :
                Call("test-collections-view", test_collection_items(rs, ctx.col_id[1]), rs,
                     "bookmarks", ctx)
       \/ /\ ctx.col_id = None
          /\ Pass("bookmarks")

\* run_tests.py 1599-1605
RunBookmarks ==
    /\ pc = "bookmarks"
    /\ UNCHANGED argVars
    /\ \/ /\ include_mutating
          /\ \E rs \in Responses(8, V1Faults) :
                Call("test-bookmarks-mutating", test_bookmarks_mutating(rs, ctx.item_id[1]), rs,
                     "watching", ctx)
       \/ /\ ~include_mutating
          /\ AddSkip("test-bookmarks-mutating", MUTATING_DISABLED, "watching")

\* run_tests.py 1608
RunWatching ==
    /\ pc = "watching"
    /\ UNCHANGED argVars
    /\ \E rs \in Responses(3, V1Faults) :
            Call("test-watching", test_watching(rs, ctx.item_id[1]), rs, "watching-mutating", ctx)

\* run_tests.py 1609-1621
RunWatchingMutating ==
    /\ pc = "watching-mutating"
    /\ UNCHANGED argVars
    /\ \/ /\ include_mutating
          /\ ctx.media_id # None
          /\ \E rs \in Responses(2, V1Faults) :
                Call("test-watching-mutating",
                     test_watching_mutating(rs, ctx.item_id[1], ctx.media_id[1]), rs,
                     "serial-pick", ctx)
       \/ /\ include_mutating
          /\ ctx.media_id = None
          /\ AddSkip("test-watching-mutating",
                     "no media_id available for watching mutation tests", "serial-pick")
       \/ /\ ~include_mutating
          /\ AddSkip("test-watching-mutating", MUTATING_DISABLED, "serial-pick")

\* A request _run_all issues itself, between two tests: no outcome is added.
Inline(req, rs, next, newctx) ==
    \/ /\ requests' = requests \o Answered(<<req>>, rs, 1)
       /\ faults' = faults + NotFull(rs, 1)
       /\ ctx' = newctx
       /\ pc' = next
       /\ UNCHANGED <<results, token, summary, exit_code, flagVars, tokenVars, redactVars, otherVars>>
    \/ Raise([reqs |-> <<req>>], rs, 1)

\* run_tests.py 1626: the serial listing is fetched for either class
SerialPickNeeded == include_mutating \/ include_destructive

\* run_tests.py 1624-1640
PickSerialItem ==
    /\ pc = "serial-pick"
    /\ UNCHANGED argVars
    /\ \/ /\ SerialPickNeeded
          /\ \E rs \in Responses(1, V1Faults) :
                Inline(Req("GET", "/v1/items?type=serial", <<>>, "content_items_serial"), rs,
                       "watchlist-toggle",
                       [ctx EXCEPT !.serial_item_id = _pick_first_item_id(ListingResponse(rs[1], FullIds.serial))])
       \/ /\ ~SerialPickNeeded
          /\ Pass("watchlist-toggle")

\* run_tests.py 1642-1654
RunWatchlistToggle ==
    /\ pc = "watchlist-toggle"
    /\ UNCHANGED argVars
    /\ \/ /\ include_mutating
          /\ ctx.serial_item_id # None
          /\ \E rs \in Responses(2, V1Faults) :
                Call("test-watchlist-toggle-mutating",
                     test_watchlist_toggle_mutating(rs, ctx.serial_item_id[1]), rs,
                     "serial-details", ctx)
       \/ /\ include_mutating
          /\ ctx.serial_item_id = None
          /\ AddSkip("test-watchlist-toggle-mutating",
                     "could not pick serial item id from /v1/items?type=serial", "serial-details")
       \/ /\ ~include_mutating
          /\ AddSkip("test-watchlist-toggle-mutating", MUTATING_DISABLED, "serial-details")

\* The season id whatever the item payload holds.
_pick_season_id_assumed(r) == Some(FullIds.season)

\* run_tests.py 1309-1317, on the response of the serial's details
_pick_season_id_from_item(r) == IF r = "full" THEN Some(FullIds.season) ELSE None

\* run_tests.py 1656-1660
PickSeason ==
    /\ pc = "serial-details"
    /\ UNCHANGED argVars
    /\ \/ /\ include_destructive
          /\ ctx.serial_item_id # None
          /\ \E rs \in Responses(1, V1Faults) :
                Inline(Req("GET", "/v1/items/{id}", ctx.serial_item_id, "serial_item_details"), rs,
                       "history",
                       [ctx EXCEPT !.season_id = _pick_season_id_from_item(rs[1])])
       \/ /\ ~(include_destructive /\ ctx.serial_item_id # None)
          /\ Pass("history")

\* run_tests.py 1663-1664
RunHistory ==
    /\ pc = "history"
    /\ UNCHANGED argVars
    /\ \E rs \in Responses(1, V1Faults) :
            LET t == test_history(rs) IN
            Call("test-history", t.o, rs, "history-mutating",
                 [ctx EXCEPT !.picked_media_id = t.media_id, !.picked_item_id = t.item_id])

\* run_tests.py 1665, with the two classes behind one switch.
HistoryMutatingEnabledEither == include_destructive \/ include_mutating

\* run_tests.py 1665
HistoryMutatingEnabled == include_destructive

\* run_tests.py 1665-1674
RunHistoryMutating ==
    /\ pc = "history-mutating"
    /\ UNCHANGED argVars
    /\ \/ /\ HistoryMutatingEnabled
          /\ \E rs \in Responses(3, V1Faults) :
                Call("test-history-mutating",
                     test_history_mutating(rs, ctx.picked_media_id, ctx.season_id,
                                           PyOrId(ctx.picked_item_id, ctx.item_id)),
                     rs, "device", ctx)
       \/ /\ ~HistoryMutatingEnabled
          /\ AddSkip("test-history-mutating", DESTRUCTIVE_DISABLED, "device")

\* run_tests.py 1677-1678
RunDevice ==
    /\ pc = "device"
    /\ UNCHANGED argVars
    /\ \E rs \in Responses(4, V1Faults) :
            LET t == test_device(rs) IN
            Call("test-device", t.o, rs, "device-mutating", [ctx EXCEPT !.dev_id = t.device_id])

\* run_tests.py 1679-1688
RunDeviceMutating ==
    /\ pc = "device-mutating"
    /\ UNCHANGED argVars
    /\ \/ /\ include_mutating
          /\ ctx.dev_id # None
          /\ \E rs \in Responses(3, V1Faults) :
                Call("test-device-mutating", test_device_mutating(rs, ctx.dev_id[1]), rs,
                     "api2", ctx)
       \/ /\ include_mutating
          /\ ctx.dev_id = None
          /\ AddSkip("test-device-mutating", "no device_id available", "api2")
       \/ /\ ~include_mutating
          /\ AddSkip("test-device-mutating", MUTATING_DISABLED, "api2")

\* run_tests.py 1695: chosen_item_id = api2_item_id or item_id
ChosenItemId == PyOrId(ctx.api2_item_id, ctx.item_id)

\* run_tests.py 1691-1694, 1732-1733
RunApi2Search ==
    /\ pc = "api2"
    /\ UNCHANGED argVars
    /\ \/ /\ include_api2
          /\ \E rs \in Responses(1, Api2Faults) :
                LET t == test_api2_items_search(rs) IN
                Call("test-api2-items-search", t.o, rs, "api2-details",
                     [ctx EXCEPT !.api2_item_id = t.item_id])
       \/ /\ ~include_api2
          /\ AddSkip("test-api2", "api2 tests not enabled (use --include-api2)", "finish")

\* run_tests.py 1696-1697, 1699-1703
RunApi2ItemDetails ==
    /\ pc = "api2-details"
    /\ UNCHANGED argVars
    /\ \E rs \in Responses(1, Api2Faults) :
            LET t == test_api2_item_details(rs, ChosenItemId[1]) IN
            Call("test-api2-item-details", t.o, rs, "api2-collections",
                 [ctx EXCEPT !.imdb_id = t.imdb_id, !.kp_id = t.kinopoisk_id])

\* run_tests.py 1698
RunApi2ItemCollections ==
    /\ pc = "api2-collections"
    /\ UNCHANGED argVars
    /\ \E rs \in Responses(1, Api2Faults) :
            Call("test-api2-item-collections", test_api2_item_collections(rs, ChosenItemId[1]),
                 rs, "api2-backdrop", ctx)

\* run_tests.py 1704-1705, 1709
RunApi2Backdrop ==
    /\ pc = "api2-backdrop"
    /\ UNCHANGED argVars
    /\ \/ /\ ctx.imdb_id # None /\ ctx.kp_id # None
          /\ \E rs \in Responses(1, Api2Faults) :
                Call("test-api2-backdrop", test_api2_backdrop(rs, ctx.imdb_id[1], ctx.kp_id[1]),
                     rs, "api2-imdb", ctx)
       \/ /\ ~(ctx.imdb_id # None /\ ctx.kp_id # None)
          /\ AddSkip("test-api2-backdrop",
                     "api2 backdrop skipped: could not extract imdb_id/kinopoisk_id", "api2-imdb")

\* run_tests.py 1707, 1710
RunApi2Imdb ==
    /\ pc = "api2-imdb"
    /\ UNCHANGED argVars
    /\ \/ /\ ctx.imdb_id # None /\ ctx.kp_id # None
          /\ \E rs \in Responses(1, Api2Faults) :
                Call("test-api2-imdb", test_api2_imdb(rs, ctx.imdb_id[1]), rs,
                     "api2-notifications", ctx)
       \/ /\ ~(ctx.imdb_id # None /\ ctx.kp_id # None)
          /\ AddSkip("test-api2-imdb", "api2 imdb skipped: could not extract imdb_id",
                     "api2-notifications")

\* run_tests.py 1712-1724
RunApi2Notifications ==
    /\ pc = "api2-notifications"
    /\ api2_device_token' \in {Some(TRUE), Some(FALSE)}
    /\ UNCHANGED <<has_client, api2_upload_report>>
    /\ \/ /\ api2_device_token' = Some(TRUE)
          /\ include_mutating
          /\ \E rs \in Responses(3, Api2Faults) :
                Call("test-api2-notifications-mutating",
                     test_api2_notifications_mutating(rs, ChosenItemId[1]), rs, "api2-upload", ctx)
       \/ /\ api2_device_token' = Some(TRUE)
          /\ ~include_mutating
          /\ AddSkip("test-api2-notifications-mutating", MUTATING_DISABLED, "api2-upload")
       \/ /\ api2_device_token' = Some(FALSE)
          /\ AddSkip("test-api2-notifications-mutating",
                     "api2 notifications skipped: provide --api2-device-token", "api2-upload")

\* run_tests.py 1726-1731
RunApi2UploadReport ==
    /\ pc = "api2-upload"
    /\ api2_upload_report' \in {Some(TRUE), Some(FALSE)}
    /\ UNCHANGED <<has_client, api2_device_token>>
    /\ \/ /\ api2_upload_report' = Some(TRUE)
          /\ include_mutating
          /\ \E rs \in Responses(1, Api2Faults) :
                Call("test-api2-upload-report", test_api2_upload_report(rs), rs, "finish", ctx)
       \/ /\ api2_upload_report' = Some(TRUE)
          /\ ~include_mutating
          /\ AddSkip("test-api2-upload-report", MUTATING_DISABLED, "finish")
       \/ /\ api2_upload_report' = Some(FALSE)
          /\ AddSkip("test-api2-upload-report",
                     "api2 upload_report skipped (enable with --api2-upload-report)", "finish")

\* run_tests.py 1735-1738
Finish ==
    /\ pc = "finish"
    /\ UNCHANGED argVars
    /\ summary' = Append(summary, results)
    /\ exit_code' = Some(FinalExit(results))
    /\ pc' = "done"
    /\ UNCHANGED <<results, requests, faults, ctx, token, flagVars, tokenVars, redactVars, otherVars>>


-----------------------------------------------------------------------------
(* Snapshots (run_tests.py 40-44, 286-308).                                *)
(*                                                                         *)
(* A request descriptor has optional headers, query and form parts, each a *)
(* map from a key (a text) to a value: "secret" for a credential, "null"   *)
(* for JSON null, "plain" for anything else.  A response has its body text *)
(* and the JSON document parsed from it, if it parsed.                     *)

K_Authorization == <<"A", "u", "t", "h", "o", "r", "i", "z", "a", "t", "i", "o", "n">>
K_authorization == <<"a", "u", "t", "h", "o", "r", "i", "z", "a", "t", "i", "o", "n">>
K_Content_Type == <<"C", "o", "n", "t", "e", "n", "t", "-", "T", "y", "p", "e">>
K_Access_token == <<"A", "c", "c", "e", "s", "s", "_", "t", "o", "k", "e", "n">>
K_Client_secret == <<"C", "l", "i", "e", "n", "t", "_", "s", "e", "c", "r", "e", "t">>
K_grant_type == <<"g", "r", "a", "n", "t", "_", "t", "y", "p", "e">>

\* run_tests.py 288-290
RedactHeaders(headers) ==
    IF headers # None /\ K_Authorization \in DOMAIN headers[1]
    THEN Some([headers[1] EXCEPT ![K_Authorization] = "Bearer <REDACTED>"])
    ELSE headers

\* run_tests.py 292 and 296: the keys looked up in query and form
SNAPSHOT_PARAM_KEYS == {K_device_token, K_access_token, K_refresh_token, K_client_secret}

\* run_tests.py 291-294 and 295-298
RedactParams(params) ==
    IF params = None THEN None
    ELSE Some([k \in DOMAIN params[1] |->
                 IF k \in SNAPSHOT_PARAM_KEYS /\ params[1][k] # "null"
                 THEN "<REDACTED>" ELSE params[1][k]])

\* The characters of [A-Za-z0-9._~+/=-]
TokenChars ==
    {"a", "b", "c", "d", "e", "f", "g", "h", "i", "j", "k", "l", "m", "n", "o", "p", "q",
     "r", "s", "t", "u", "v", "w", "x", "y", "z",
     "A", "B", "C", "D", "E", "F", "G", "H", "I", "J", "K", "L", "M", "N", "O", "P", "Q",
     "R", "S", "T", "U", "V", "W", "X", "Y", "Z",
     "0", "1", "2", "3", "4", "5", "6", "7", "8", "9",
     ".", "_", "~", "+", "/", "=", "-"}

T_Authorization == <<"A", "u", "t", "h", "o", "r", "i", "z", "a", "t", "i", "o", "n", ":">>
T_Bearer == <<"B", "e", "a", "r", "e", "r">>
T_access_token_eq == <<"a", "c", "c", "e", "s", "s", "_", "t", "o", "k", "e", "n", "=">>
T_REDACTED == <<"<", "R", "E", "D", "A", "C", "T", "E", "D", ">">>

\* Text has the literal lit at position i.
HasAt(text, i, lit) ==
    /\ i + Len(lit) - 1 <= Len(text)
    /\ \A n \in 1..Len(lit) : text[i + n - 1] = lit[n]

\* The first position from i on whose character is not in set.
RECURSIVE SkipWhile(_, _, _)
SkipWhile(text, i, set) ==
    IF i <= Len(text) /\ text[i] \in set THEN SkipWhile(text, i + 1, set) ELSE i

\* Where a match of Authorization:\s*Bearer\s+[A-Za-z0-9._~+/=-]+ that starts
\* at i ends (the position after it), 0 if there is none.
MatchBearer(text, i) ==
    LET a == SkipWhile(text, i + Len(T_Authorization), Whitespace)
        b == a + Len(T_Bearer)
        c == SkipWhile(text, b, Whitespace)
        d == SkipWhile(text, c, TokenChars)
    IN  IF HasAt(text, i, T_Authorization) /\ HasAt(text, a, T_Bearer) /\ c > b /\ d > c
        THEN d ELSE 0

\* Where a match of access_token=[A-Za-z0-9._~+/=-]+ that starts at i ends.
MatchAccessToken(text, i) ==
    LET c == i + Len(T_access_token_eq)
        d == SkipWhile(text, c, TokenChars)
    IN  IF HasAt(text, i, T_access_token_eq) /\ d > c THEN d ELSE 0

\* run_tests.py 42: re.sub over the text from position i on
RECURSIVE SubBearer(_, _)
SubBearer(text, i) ==
    IF i > Len(text) THEN <<>>
    ELSE IF MatchBearer(text, i) # 0
         THEN T_Authorization \o <<" ">> \o T_Bearer \o <<" ">> \o T_REDACTED
              \o SubBearer(text, MatchBearer(text, i))
         ELSE <<text[i]>> \o SubBearer(text, i + 1)

\* run_tests.py 43: re.sub over the text from position i on
RECURSIVE SubAccessToken(_, _)
SubAccessToken(text, i) ==
    IF i > Len(text) THEN <<>>
    ELSE IF MatchAccessToken(text, i) # 0
         THEN T_access_token_eq \o T_REDACTED \o SubAccessToken(text, MatchAccessToken(text, i))
         ELSE <<text[i]>> \o SubAccessToken(text, i + 1)

\* run_tests.py 40-44
_redact_tokens(text) == SubAccessToken(SubBearer(text, 1), 1)

\* The text of a JSON scalar.
T_secret == <<"x", "y", "z">>
ScalarText(v) ==
    CASE v = "null" -> <<"n", "u", "l", "l">>
      [] v = "secret" -> <<"\"">> \o T_secret \o <<"\"">>
      [] v = "<REDACTED>" -> <<"\"">> \o T_REDACTED \o <<"\"">>
      [] OTHER -> <<"\"", "p", "l", "a", "i", "n", "\"">>

\* The elements of a set, in some order.
RECURSIVE SeqOf(_)
SeqOf(S) ==
    IF S = {} THEN <<>> ELSE LET x == CHOOSE y \in S : TRUE IN <<x>> \o SeqOf(S \ {x})

RECURSIVE JoinTexts(_)
JoinTexts(texts) ==
    IF texts = <<>> THEN <<>>
    ELSE IF Len(texts) = 1 THEN texts[1]
    ELSE texts[1] \o <<",", " ">> \o JoinTexts(Tail(texts))

\* The body text a JSON document is parsed from (json.loads at run_tests.py
\* 221 is its inverse).
RECURSIVE Encode(_)
Encode(d) ==
    CASE d.k = "obj" ->
            LET keys == SeqOf(DOMAIN d.m) IN
            <<"{">> \o JoinTexts([i \in 1..Len(keys) |->
                          <<"\"">> \o keys[i] \o <<"\"", ":", " ">> \o Encode(d.m[keys[i]])])
            \o <<"}">>
      [] d.k = "arr" ->
            <<"[">> \o JoinTexts([i \in 1..Len(d.a) |-> Encode(d.a[i])]) \o <<"]">>
      [] OTHER -> ScalarText(d.v)

JsonResponse(d) == [status |-> 200, raw_text |-> Encode(d), json |-> Some(d)]
TextResponse(text) == [status |-> 200, raw_text |-> text, json |-> None]

\* run_tests.py 286-308
_save_snapshot(req, resp) ==
    [request |-> [headers |-> RedactHeaders(req.headers),
                  query |-> RedactParams(req.query),
                  form |-> RedactParams(req.form)],
     response |-> [status |-> resp.status,
                   raw_text |-> _redact_tokens(resp.raw_text),
                   json |-> IF resp.json = None THEN None
                            ELSE Some(_redact_json(resp.json[1]))]]

\* The descriptors and responses of SpecSnap.
SnapHeaders ==
    {None} \cup {Some((k :> v)) : k \in {K_Authorization, K_authorization}, v \in {"Bearer secret"}}
    \cup {Some(K_Content_Type :> "plain")}
SnapQueries ==
    {None} \cup {Some((k :> v)) : k \in {K_access_token, K_Access_token, K_device_token,
                                      K_grant_type},
                               v \in {"secret", "null"}}
SnapForms ==
    {None} \cup {Some((k :> "secret")) : k \in {K_client_secret, K_Client_secret}}
SnapDocs ==
    {Obj((k :> Scalar(v))) : k \in {K_access_token, K_refresh_token, K_title},
                           v \in {"secret", "null"}}
    \cup {Obj((K_access_token :> Scalar("secret")) @@ (K_refresh_token :> Scalar("secret"))),
          Obj(K_title :> Arr(<<Obj(K_Code :> Scalar("secret"))>>)),
          Arr(<<Scalar("plain")>>)}
SnapTexts ==
    {<<>>,
     T_access_token_eq \o T_secret \o <<"&">> \o K_grant_type \o <<"=">> \o T_secret,
     T_Authorization \o <<" ">> \o T_Bearer \o <<" ">> \o T_secret \o <<"\n">>,
     T_Authorization \o T_Bearer \o <<" ", "\n">> \o T_secret,
     T_Authorization \o <<" ">> \o T_Bearer \o T_secret}
SnapResponses == {JsonResponse(d) : d \in SnapDocs} \cup {TextResponse(t) : t \in SnapTexts}

NoRequest == [headers |-> None, query |-> None, form |-> None]
NoResponse == TextResponse(<<>>)
NoSnapshot == [request |-> NoRequest, response |-> NoResponse]

SnapIdle ==
    /\ sn_pc = "idle" /\ sn_req = NoRequest /\ sn_resp = NoResponse /\ sn_out = NoSnapshot

SnSave ==
    /\ sn_pc = "call"
    /\ sn_out' = _save_snapshot(sn_req, sn_resp)
    /\ sn_pc' = "saved"
    /\ UNCHANGED <<sn_req, sn_resp, tokenVars, redactVars, runVars, listVars, flowVars,
                   laterVars>>


-----------------------------------------------------------------------------
(* SpecSettings: the settings update of test_device_mutating (run_tests.py *)
(* 1121-1144, 1161-1180), from the settings response on.                   *)
(*                                                                         *)
(* settings_map maps a key to its entry.  An entry, as far as the routine  *)
(* looks at it: not an object; an object whose value is a boolean, an      *)
(* integer, a list of options, or something else (a string, a float,       *)
(* null).  An option is not an object, or an object with an id (integer or *)
(* not) and a selected member (1 / true, or anything else).                *)

MaxOpts == 2

REQUIRED_KEYS ==
    <<"supportSsl", "supportHevc", "supportHdr", "support4k", "mixedPlaylist",
      "streamingType", "serverLocation">>

NotAnEntry == [kind |-> "absent", b |-> FALSE, n |-> 0, opts |-> <<>>]
BoolEntry(b) == [NotAnEntry EXCEPT !.kind = "bool", !.b = b]
IntEntry(n) == [NotAnEntry EXCEPT !.kind = "int", !.n = n]
OtherEntry == [NotAnEntry EXCEPT !.kind = "other"]
ListEntry(opts) == [NotAnEntry EXCEPT !.kind = "list", !.opts = opts]

NotAnOption == [obj |-> FALSE, id_int |-> FALSE, id |-> 0, selected |-> FALSE]
Option(id_int, id, selected) ==
    [obj |-> TRUE, id_int |-> id_int, id |-> id, selected |-> selected]

Options ==
    {NotAnOption} \cup {Option(t, id, sel) : t \in BOOLEAN, id \in {1, 2}, sel \in BOOLEAN}

OptionLists == UNION {[1..n -> Options] : n \in 0..MaxOpts}

Entries ==
    {NotAnEntry, OtherEntry, BoolEntry(TRUE), BoolEntry(FALSE), IntEntry(0), IntEntry(5)}
    \cup {ListEntry(opts) : opts \in OptionLists}

\* The first position of a sequence that satisfies a test, 0 if none does.
FirstIn(n, Test(_)) ==
    IF \E i \in 1..n : Test(i)
    THEN CHOOSE i \in 1..n : Test(i) /\ \A j \in 1..(i - 1) : ~Test(j)
    ELSE 0

\* run_tests.py 1121-1144 on the entry of the key; settings_map is a dict
ExtractEntry(entry) ==
    CASE entry.kind = "bool" -> Some(IF entry.b THEN 1 ELSE 0)
      [] entry.kind = "int" -> Some(entry.n)
      [] entry.kind = "list" ->
            LET opts == entry.opts
                Sel(i) == opts[i].obj /\ opts[i].selected /\ opts[i].id_int
                HasId(i) == opts[i].obj /\ opts[i].id_int
                s == FirstIn(Len(opts), Sel)
                f == FirstIn(Len(opts), HasId)
            IN  IF s # 0 THEN Some(opts[s].id)
                ELSE IF f # 0 THEN Some(opts[f].id)
                ELSE None
      [] OTHER -> None

\* run_tests.py 1121-1144
_extract_setting_value_int(settings_map, key) ==
    IF settings_map = None THEN None ELSE ExtractEntry(settings_map[1][key])

\* run_tests.py 1168-1180: the form posted (optional) and the status, the
\* update being answered {status: int}.
SettingsUpdate(settings_map) ==
    LET n == Len(REQUIRED_KEYS)
        v == [i \in 1..n |-> _extract_setting_value_int(settings_map, REQUIRED_KEYS[i])]
    IN  IF \E i \in 1..n : v[i] = None
        THEN [form |-> None, st |-> "FAIL"]
        ELSE [form |-> Some([k \in {REQUIRED_KEYS[i] : i \in 1..n} |->
                                v[CHOOSE i \in 1..n : REQUIRED_KEYS[i] = k][1]]),
              st |-> "PASS"]

\* The settings responses of SpecSettings: no settings object, or every key
\* a plain integer but one, or every key a list with its second option
\* selected but one.
SettingsMaps ==
    {None}
    \cup {Some([[k \in {REQUIRED_KEYS[j] : j \in 1..Len(REQUIRED_KEYS)} |-> base]
                  EXCEPT ![REQUIRED_KEYS[i]] = e]) :
            i \in 1..Len(REQUIRED_KEYS), e \in Entries,
            base \in {IntEntry(1),
                      ListEntry(<<Option(TRUE, 1, FALSE), Option(TRUE, 2, TRUE)>>)}}

NoUpdate == [form |-> None, st |-> "SKIP"]

SettingsIdle == st_pc = "idle" /\ st_map = None /\ st_out = NoUpdate

StUpdate ==
    /\ st_pc = "read"
    /\ st_out' = SettingsUpdate(st_map)
    /\ st_pc' = "returned"
    /\ UNCHANGED <<st_map, earlierVars, codeVars, shapeVars>>

-----------------------------------------------------------------------------
(* SpecCode: the device-code step of _device_flow (extract_token.py        *)
(* 127-152), from the response on.                                         *)
(*                                                                         *)
(* A device-code response, as far as the step looks at it: whether the     *)
(* body parsed to an object, and for each member what it is: "absent",     *)
(* "empty" (the empty string), "str" (a non-empty string), "int" (a        *)
(* non-zero integer), "bool" (true).                                       *)

GoodCode ==
    [json |-> "dict", code |-> "str", user_code |-> "str", verification_uri |-> "str",
     verification_uri_complete |-> "absent", expires_in |-> "int", interval |-> "int"]

TextKinds == {"absent", "empty", "str", "int"}
NumberKinds == {"absent", "int", "bool", "str"}

\* The device-code responses of SpecCode: the documented one with up to two
\* members changed, the alternative uri there or not.
CodeResponses ==
    {[GoodCode EXCEPT !.json = "other"]}
    \cup {[GoodCode EXCEPT !.code = c, !.user_code = u] : c \in TextKinds, u \in TextKinds}
    \cup {[GoodCode EXCEPT !.verification_uri = v, !.verification_uri_complete = w,
                           !.expires_in = e] :
            v \in TextKinds, w \in {"absent", "empty", "str"}, e \in NumberKinds}
    \cup {[GoodCode EXCEPT !.expires_in = e, !.interval = i] :
            e \in NumberKinds, i \in NumberKinds}

\* Python's `a or b` on the kinds above
KindOr(a, b) == IF a \in {"absent", "empty"} THEN b ELSE a

\* extract_token.py 141-150: isinstance(x, str) and x; isinstance(x, int)
NonEmptyStr(kind) == kind = "str"
IsInstanceInt(kind) == kind \in {"int", "bool"}

\* extract_token.py 134-150: the message of the RuntimeError, "" if none
DeviceCodeError(r) ==
    IF r.json # "dict" THEN "device_code: expected JSON object"
    ELSE IF ~NonEmptyStr(r.code) THEN "device_code: missing 'code'"
    ELSE IF ~NonEmptyStr(r.user_code) THEN "device_code: missing 'user_code'"
    ELSE IF ~NonEmptyStr(KindOr(r.verification_uri, r.verification_uri_complete))
    THEN "device_code: missing 'verification_uri'"
    ELSE IF ~IsInstanceInt(r.expires_in) THEN "device_code: missing/invalid 'expires_in'"
    ELSE IF ~IsInstanceInt(r.interval) THEN "device_code: missing/invalid 'interval'"
    ELSE ""

CodeIdle == dc_pc = "idle" /\ dc_resp = GoodCode /\ dc_msg = ""

\* extract_token.py 127-174: the step raises or goes on to the poll loop
DcCheck ==
    /\ dc_pc = "request"
    /\ dc_msg' = DeviceCodeError(dc_resp)
    /\ dc_pc' = IF dc_msg' = "" THEN "loop" ELSE "raised"
    /\ UNCHANGED <<dc_resp, earlierVars, settingsVars, shapeVars>>

-----------------------------------------------------------------------------
(* SpecShape: the shape assertions (run_tests.py 236-262) made by one      *)
(* probe on its accumulator.  A value is known by type(x).__name__.        *)

MaxChecks == 2

TypeNames == {"dict", "list", "str", "int", "float", "bool", "NoneType"}

Assertions == {"obj", "list", "str", "int", "bool", "num"}

\* isinstance(x, classes): bool is a subclass of int
IsInstance(ty, classes) == ty \in classes \/ (ty = "bool" /\ "int" \in classes)

\* run_tests.py 241-262 with _expect_int and _expect_num as plain isinstance
\* tests.
AcceptsPlain(assertion, ty) ==
    CASE assertion = "obj" -> IsInstance(ty, {"dict"})
      [] assertion = "list" -> IsInstance(ty, {"list"})
      [] assertion = "str" -> IsInstance(ty, {"str"})
      [] assertion = "int" -> IsInstance(ty, {"int"})
      [] assertion = "bool" -> IsInstance(ty, {"bool"})
      [] OTHER -> IsInstance(ty, {"int", "float"})

\* run_tests.py 241-262: the condition each _expect_* hands to _require
Accepts(assertion, ty) ==
    CASE assertion = "obj" -> IsInstance(ty, {"dict"})
      [] assertion = "list" -> IsInstance(ty, {"list"})
      [] assertion = "str" -> IsInstance(ty, {"str"})
      [] assertion = "int" -> IsInstance(ty, {"int"}) /\ ~IsInstance(ty, {"bool"})
      [] assertion = "bool" -> IsInstance(ty, {"bool"})
      [] OTHER -> IsInstance(ty, {"int", "float"}) /\ ~IsInstance(ty, {"bool"})

\* run_tests.py 236-238
_require(cond, msg, errors) == IF cond THEN errors ELSE Append(errors, msg)

\* run_tests.py 241-262: f"{where}: expected ..., got {_type_name(x)}"
_expect(assertion, ty, where, errors) ==
    _require(Accepts(assertion, ty), <<where, assertion, ty>>, errors)

ShapeIdle == sh_pc = "idle" /\ sh_errors = <<>> /\ sh_log = <<>>

\* One _expect_* call of the probe.
ShExpect(assertion, ty) ==
    /\ sh_pc = "probe"
    /\ Len(sh_log) < MaxChecks
    /\ sh_errors' = _expect(assertion, ty, "value", sh_errors)
    /\ sh_log' = Append(sh_log, <<assertion, ty>>)
    /\ UNCHANGED <<sh_pc, earlierVars, settingsVars, codeVars>>

\* One _require call of the probe, its condition true or false.
ShRequire(cond) ==
    /\ sh_pc = "probe"
    /\ Len(sh_log) < MaxChecks
    /\ sh_errors' = _require(cond, <<"value", "require", "">>, sh_errors)
    /\ sh_log' = Append(sh_log, <<"require", IF cond THEN "true" ELSE "false">>)
    /\ UNCHANGED <<sh_pc, earlierVars, settingsVars, codeVars>>

LaterIdle == SettingsIdle /\ CodeIdle /\ ShapeIdle


-----------------------------------------------------------------------------
(* SpecFlow: extract_token.py, main (217-276) and _device_flow (119-214).  *)
(*                                                                         *)
(* Time is in whole seconds.  An HTTP exchange returns after 0 or 1        *)
(* second; time.sleep(n) takes n seconds.  A poll answer is what the loop  *)
(* looks at: whether the body is a JSON object, the type of its            *)
(* access_token and of its error, the error string, and the tokens of a    *)
(* token payload.                                                          *)

\* The largest expires_in of a device-code answer.
MaxExpires == 8

\* extract_token.py 197: poll_interval += 5
SLOW_DOWN_STEP == 5

\* extract_token.py 103: keep
MASK_KEEP == 6

PyMax(a, b) == IF a >= b THEN a ELSE b

ExpiresIns == {-1, 2, MaxExpires}
Intervals == {0, 1, 5}
ExchangeSeconds == {0, 1}

ShortToken == <<"a", "b", "c">>
LongToken == <<"a", "b", "c", "d", "e", "f", "g", "h">>

ErrorStrings ==
    {"authorization_pending", "slow_down", "expired_token", "access_denied", "server_error"}

NonJsonAnswer ==
    [json |-> "other", at_ty |-> "absent", access_token |-> <<>>, refresh_token |-> None,
     err_ty |-> "absent", error |-> ""]

PollAnswers ==
    {NonJsonAnswer}
    \cup {[NonJsonAnswer EXCEPT !.json = "dict", !.at_ty = at, !.err_ty = et] :
            at \in {"absent", "int"}, et \in {"absent", "int"}}
    \cup {[NonJsonAnswer EXCEPT !.json = "dict", !.at_ty = at, !.err_ty = "str", !.error = e] :
            at \in {"absent", "int"}, e \in ErrorStrings}
    \cup {[NonJsonAnswer EXCEPT !.json = "dict", !.at_ty = "str", !.access_token = tok,
                                !.refresh_token = rt, !.err_ty = et] :
            tok \in {ShortToken, LongToken}, rt \in {None, Some(LongToken)},
            et \in {"absent", "int"}}
    \cup {[NonJsonAnswer EXCEPT !.json = "dict", !.at_ty = "str", !.access_token = LongToken,
                                !.err_ty = "str", !.error = e] :
            e \in ErrorStrings}

NoAnswer == NonJsonAnswer

\* extract_token.py 185
HasToken(r) == r.json = "dict" /\ r.at_ty = "str"

\* extract_token.py 191
HasError(r) == r.json = "dict" /\ r.err_ty = "str"

\* extract_token.py 103-107: "<redacted>" (no prefix, no length) or the first
\* keep characters and the length.
_mask(t) ==
    IF Len(t) <= MASK_KEEP THEN [prefix |-> <<>>, len |-> None]
    ELSE [prefix |-> SubSeq(t, 1, MASK_KEEP), len |-> Some(Len(t))]

\* A token file left by an earlier run.
OldFile == [access_token |-> <<"o", "l", "d">>, refresh_token |-> None, obtained_at |-> -1]

FlowIdle ==
    /\ fl_pc = "idle" /\ fl_creds = FALSE /\ fl_expires_in = 0 /\ fl_interval = 0
    /\ fl_poll_interval = 0 /\ fl_now = 0 /\ fl_deadline = 0 /\ fl_resp = NoAnswer
    /\ fl_code_reqs = 0 /\ fl_poll_times = <<>> /\ fl_sleeps = <<>> /\ fl_slow = 0
    /\ fl_end = "" /\ fl_file = None /\ fl_printed = None /\ fl_exit = None

OtherIdle == SnapIdle /\ ListIdle /\ FlowIdle /\ LaterIdle

notFlowVars == <<tokenVars, redactVars, runVars, snapVars, listVars, laterVars>>

\* extract_token.py 235-238
FlMain ==
    /\ fl_pc = "main"
    /\ IF fl_creds
       THEN fl_pc' = "device_code" /\ UNCHANGED <<fl_exit, fl_end>>
       ELSE fl_pc' = "done" /\ fl_exit' = Some(2) /\ fl_end' = "nocreds"
    /\ UNCHANGED <<fl_creds, fl_expires_in, fl_interval, fl_poll_interval, fl_now,
                   fl_deadline, fl_resp, fl_code_reqs, fl_poll_times, fl_sleeps, fl_slow,
                   fl_file, fl_printed, notFlowVars>>

\* extract_token.py 128-152: the device-code answer is not the documented one.
FlCodeRejected ==
    /\ fl_pc = "device_code"
    /\ fl_code_reqs' = fl_code_reqs + 1
    /\ \E d \in ExchangeSeconds : fl_now' = fl_now + d
    /\ fl_end' = "protocol" /\ fl_pc' = "raised"
    /\ UNCHANGED <<fl_creds, fl_expires_in, fl_interval, fl_poll_interval, fl_deadline,
                   fl_resp, fl_poll_times, fl_sleeps, fl_slow, fl_file, fl_printed, fl_exit,
                   notFlowVars>>

\* extract_token.py 128-174
FlCodeAccepted ==
    /\ fl_pc = "device_code"
    /\ fl_code_reqs' = fl_code_reqs + 1
    /\ \E d \in ExchangeSeconds, e \in ExpiresIns, i \in Intervals :
          /\ fl_now' = fl_now + d
          /\ fl_expires_in' = e /\ fl_interval' = i
          /\ fl_deadline' = fl_now' + PyMax(1, e)
          /\ fl_poll_interval' = PyMax(1, i)
    /\ fl_pc' = "loop"
    /\ UNCHANGED <<fl_creds, fl_resp, fl_poll_times, fl_sleeps, fl_slow, fl_end, fl_file,
                   fl_printed, fl_exit, notFlowVars>>

\* extract_token.py 176-183 with `<=` for `<` in the loop test.
FlPollLate ==
    /\ fl_pc = "loop"
    /\ fl_now <= fl_deadline
    /\ fl_poll_times' = Append(fl_poll_times, fl_now)
    /\ \E d \in ExchangeSeconds : fl_now' = fl_now + d
    /\ fl_resp' \in PollAnswers
    /\ fl_slow' = fl_slow + (IF HasError(fl_resp') /\ fl_resp'.error = "slow_down" THEN 1 ELSE 0)
    /\ fl_pc' = "answer"
    /\ UNCHANGED <<fl_creds, fl_expires_in, fl_interval, fl_poll_interval, fl_deadline,
                   fl_code_reqs, fl_sleeps, fl_end, fl_file, fl_printed, fl_exit, notFlowVars>>

\* extract_token.py 176-183: the loop test holds, one poll exchange
FlPoll ==
    /\ fl_pc = "loop"
    /\ fl_now < fl_deadline
    /\ fl_poll_times' = Append(fl_poll_times, fl_now)
    /\ \E d \in ExchangeSeconds : fl_now' = fl_now + d
    /\ fl_resp' \in PollAnswers
    /\ fl_slow' = fl_slow + (IF HasError(fl_resp') /\ fl_resp'.error = "slow_down" THEN 1 ELSE 0)
    /\ fl_pc' = "answer"
    /\ UNCHANGED <<fl_creds, fl_expires_in, fl_interval, fl_poll_interval, fl_deadline,
                   fl_code_reqs, fl_sleeps, fl_end, fl_file, fl_printed, fl_exit, notFlowVars>>

\* extract_token.py 66-71: urlopen raises something other than HTTPError (no
\* route, timeout); nothing catches it, in the device-code request or in a
\* poll.
FlExchangeFailed ==
    /\ \/ fl_pc = "device_code" /\ fl_code_reqs' = fl_code_reqs + 1
          /\ UNCHANGED fl_poll_times
       \/ fl_pc = "loop" /\ fl_now < fl_deadline
          /\ fl_poll_times' = Append(fl_poll_times, fl_now)
          /\ UNCHANGED fl_code_reqs
    /\ \E d \in ExchangeSeconds : fl_now' = fl_now + d
    /\ fl_end' = "transport" /\ fl_pc' = "raised"
    /\ UNCHANGED <<fl_creds, fl_expires_in, fl_interval, fl_poll_interval, fl_deadline,
                   fl_resp, fl_sleeps, fl_slow, fl_file, fl_printed, fl_exit, notFlowVars>>

\* extract_token.py 191-208 tested before 185: an error string decides even
\* when the answer carries a token.
VerdictErrorFirst(r) ==
    IF HasError(r) /\ r.error \in {"authorization_pending", "slow_down"}
    THEN (IF r.error = "slow_down" THEN "slow_down" ELSE "pending")
    ELSE IF HasToken(r) THEN "success"
    ELSE IF HasError(r) /\ r.error = "expired_token" THEN "expired"
    ELSE IF HasError(r) /\ r.error = "access_denied" THEN "denied"
    ELSE "protocol"

\* extract_token.py 185-208 with access_denied handled like
\* authorization_pending.
VerdictDeniedPending(r) ==
    IF HasToken(r) THEN "success"
    ELSE IF HasError(r)
    THEN CASE r.error \in {"authorization_pending", "access_denied"} -> "pending"
           [] r.error = "slow_down" -> "slow_down"
           [] r.error = "expired_token" -> "expired"
           [] OTHER -> "protocol"
    ELSE "protocol"

\* extract_token.py 185-208: what the loop does with a poll answer
Verdict(r) ==
    IF HasToken(r) THEN "success"
    ELSE IF HasError(r)
    THEN CASE r.error = "authorization_pending" -> "pending"
           [] r.error = "slow_down" -> "slow_down"
           [] r.error = "expired_token" -> "expired"
           [] r.error = "access_denied" -> "denied"
           [] OTHER -> "protocol"
    ELSE "protocol"

\* extract_token.py 196-198 without line 197.
NextIntervalFlat(v, poll_interval) == poll_interval

\* extract_token.py 193-198: poll_interval after the answer
NextInterval(v, poll_interval) ==
    IF v = "slow_down" THEN poll_interval + SLOW_DOWN_STEP ELSE poll_interval

\* extract_token.py 185-208
FlAnswer ==
    /\ fl_pc = "answer"
    /\ LET v == Verdict(fl_resp) IN
       /\ fl_pc' = CASE v = "success" -> "write"
                     [] v \in {"pending", "slow_down"} -> "sleep"
                     [] OTHER -> "raised"
       /\ fl_end' = IF v \in {"pending", "slow_down"} THEN fl_end ELSE v
       /\ fl_poll_interval' = NextInterval(v, fl_poll_interval)
    /\ UNCHANGED <<fl_creds, fl_expires_in, fl_interval, fl_now, fl_deadline, fl_resp,
                   fl_code_reqs, fl_poll_times, fl_sleeps, fl_slow, fl_file, fl_printed,
                   fl_exit, notFlowVars>>

\* extract_token.py 211 with the interval of the device-code answer instead
\* of poll_interval.
FlSleepBase ==
    /\ fl_pc = "sleep"
    /\ fl_sleeps' = Append(fl_sleeps, PyMax(1, fl_interval))
    /\ fl_now' = fl_now + PyMax(1, fl_interval)
    /\ fl_pc' = "loop"
    /\ UNCHANGED <<fl_creds, fl_expires_in, fl_interval, fl_poll_interval, fl_deadline,
                   fl_resp, fl_code_reqs, fl_poll_times, fl_slow, fl_end, fl_file, fl_printed,
                   fl_exit, notFlowVars>>

\* extract_token.py 211
FlSleep ==
    /\ fl_pc = "sleep"
    /\ fl_sleeps' = Append(fl_sleeps, fl_poll_interval)
    /\ fl_now' = fl_now + fl_poll_interval
    /\ fl_pc' = "loop"
    /\ UNCHANGED <<fl_creds, fl_expires_in, fl_interval, fl_poll_interval, fl_deadline,
                   fl_resp, fl_code_reqs, fl_poll_times, fl_slow, fl_end, fl_file, fl_printed,
                   fl_exit, notFlowVars>>

\* extract_token.py 176, 213-214: the loop test fails
FlTimeout ==
    /\ fl_pc = "loop"
    /\ fl_now >= fl_deadline
    /\ fl_end' = "timeout" /\ fl_pc' = "raised"
    /\ UNCHANGED <<fl_creds, fl_expires_in, fl_interval, fl_poll_interval, fl_now, fl_deadline,
                   fl_resp, fl_code_reqs, fl_poll_times, fl_sleeps, fl_slow, fl_file,
                   fl_printed, fl_exit, notFlowVars>>

\* extract_token.py 250-276, with the tokens written as they are printed.
FlWriteMasked ==
    /\ fl_pc = "write"
    /\ fl_file' = Some([access_token |-> _mask(fl_resp.access_token).prefix,
                        refresh_token |-> None, obtained_at |-> fl_now])
    /\ fl_printed' = Some(_mask(fl_resp.access_token))
    /\ fl_exit' = Some(0)
    /\ fl_pc' = "done"
    /\ UNCHANGED <<fl_creds, fl_expires_in, fl_interval, fl_poll_interval, fl_now, fl_deadline,
                   fl_resp, fl_code_reqs, fl_poll_times, fl_sleeps, fl_slow, fl_end,
                   notFlowVars>>

\* extract_token.py 250-276
FlWrite ==
    /\ fl_pc = "write"
    /\ fl_file' = Some([access_token |-> fl_resp.access_token,
                        refresh_token |-> fl_resp.refresh_token, obtained_at |-> fl_now])
    /\ fl_printed' = Some(_mask(fl_resp.access_token))
    /\ fl_exit' = Some(0)
    /\ fl_pc' = "done"
    /\ UNCHANGED <<fl_creds, fl_expires_in, fl_interval, fl_poll_interval, fl_now, fl_deadline,
                   fl_resp, fl_code_reqs, fl_poll_times, fl_sleeps, fl_slow, fl_end,
                   notFlowVars>>

-----------------------------------------------------------------------------
(* The specifications.                                                     *)

\* _run_all is entered with any combination of its include_* flags; the
\* arguments it reads once (client credentials, api2 device token, api2
\* upload switch) take their value where it reads them.
Init ==
    /\ TokenIdle /\ RedactIdle /\ OtherIdle
    /\ pc = "start"
    /\ include_mutating \in BOOLEAN /\ include_destructive \in BOOLEAN
    /\ include_api2 \in BOOLEAN
    /\ has_client = None /\ api2_device_token = None /\ api2_upload_report = None
    /\ token = None /\ results = <<>> /\ requests = <<>> /\ summary = <<>>
    /\ exit_code = None /\ ctx = NoCtx /\ faults = 0

Next ==
    \/ ResolveToken \/ RunAuth \/ RunUser \/ RunReferences \/ RunTv \/ RunTypes
    \/ RunGenres \/ RunCountries \/ RunSubtitles \/ RunItemsListing \/ RunItemsFilters
    \/ EarlyReturn \/ RunItemDetails \/ RunSearch \/ RunSimilar
    \/ \E i \in 1..Len(Shortcuts) : RunShortcut(i) \/ RunShortcutGenre(i)
    \/ RunTrailer \/ RunComments \/ RunVote \/ RunMediaLinks \/ RunMediaVideoLink
    \/ RunCollections \/ RunCollectionsSort \/ RunCollectionsView \/ RunBookmarks
    \/ RunWatching \/ RunWatchingMutating \/ PickSerialItem \/ RunWatchlistToggle
    \/ PickSeason \/ RunHistory \/ RunHistoryMutating \/ RunDevice \/ RunDeviceMutating
    \/ RunApi2Search \/ RunApi2ItemDetails \/ RunApi2ItemCollections \/ RunApi2Backdrop
    \/ RunApi2Imdb \/ RunApi2Notifications \/ RunApi2UploadReport \/ Finish

Spec == Init /\ [][Next]_vars

InitToken ==
    /\ RunIdle /\ RedactIdle /\ OtherIdle
    /\ tk_pc = "args"
    /\ tk_arg \in TokenArgs /\ tk_env \in TokenEnvs /\ tk_file \in TokenFiles
    /\ tk_res = NoResult

NextToken == TkResolve

SpecToken == InitToken /\ [][NextToken]_vars

InitRedact ==
    /\ RunIdle /\ TokenIdle /\ OtherIdle
    /\ rd_pc = "build"
    /\ rd_doc \in {Scalar(v) : v \in DocScalars} \cup {Obj(<<>>), Arr(<<>>)}
    /\ rd_out = NoDoc /\ rd_out2 = NoDoc

NextRedact ==
    \/ \E key \in DocKeys : RdWrapObj(key)
    \/ \E key \in DocKeys, other \in DocKeys : RdWrapObj2(key, other)
    \/ RdWrapArr
    \/ RdRedact
    \/ RdRedactAgain

SpecRedact == InitRedact /\ [][NextRedact]_vars

InitSnap ==
    /\ RunIdle /\ TokenIdle /\ RedactIdle /\ ListIdle /\ FlowIdle /\ LaterIdle
    /\ sn_pc = "call"
    /\ sn_req \in [headers : SnapHeaders, query : SnapQueries, form : SnapForms]
    /\ sn_resp \in SnapResponses
    /\ sn_out = NoSnapshot

NextSnap == SnSave

SpecSnap == InitSnap /\ [][NextSnap]_vars

InitList ==
    /\ RunIdle /\ TokenIdle /\ RedactIdle /\ SnapIdle /\ FlowIdle /\ LaterIdle
    /\ li_pc = "call"
    /\ li_resp \in ListingResponses
    /\ li_out = NoListingResult

NextList == LiReturn

SpecList == InitList /\ [][NextList]_vars

InitSettings ==
    /\ RunIdle /\ TokenIdle /\ RedactIdle /\ SnapIdle /\ ListIdle /\ FlowIdle
    /\ CodeIdle /\ ShapeIdle
    /\ st_pc = "read"
    /\ st_map \in SettingsMaps
    /\ st_out = NoUpdate

NextSettings == StUpdate

SpecSettings == InitSettings /\ [][NextSettings]_vars

InitCode ==
    /\ RunIdle /\ TokenIdle /\ RedactIdle /\ SnapIdle /\ ListIdle /\ FlowIdle
    /\ SettingsIdle /\ ShapeIdle
    /\ dc_pc = "request"
    /\ dc_resp \in CodeResponses
    /\ dc_msg = ""

NextCode == DcCheck

SpecCode == InitCode /\ [][NextCode]_vars

InitShape ==
    /\ RunIdle /\ TokenIdle /\ RedactIdle /\ SnapIdle /\ ListIdle /\ FlowIdle
    /\ SettingsIdle /\ CodeIdle
    /\ sh_pc = "probe"
    /\ sh_errors = <<>>
    /\ sh_log = <<>>

NextShape ==
    \/ \E assertion \in Assertions, ty \in TypeNames : ShExpect(assertion, ty)
    \/ \E cond \in BOOLEAN : ShRequire(cond)

SpecShape == InitShape /\ [][NextShape]_vars

InitFlow ==
    /\ RunIdle /\ TokenIdle /\ RedactIdle /\ SnapIdle /\ ListIdle /\ LaterIdle
    /\ fl_pc = "main"
    /\ fl_creds \in BOOLEAN
    /\ fl_file \in {None, Some(OldFile)}
    /\ fl_expires_in = 0 /\ fl_interval = 0 /\ fl_poll_interval = 0
    /\ fl_now = 0 /\ fl_deadline = 0 /\ fl_resp = NoAnswer
    /\ fl_code_reqs = 0 /\ fl_poll_times = <<>> /\ fl_sleeps = <<>> /\ fl_slow = 0
    /\ fl_end = "" /\ fl_printed = None /\ fl_exit = None

NextFlow ==
    \/ FlMain
    \/ FlCodeRejected
    \/ FlCodeAccepted
    \/ FlPoll
    \/ FlExchangeFailed
    \/ FlAnswer
    \/ FlSleep
    \/ FlTimeout
    \/ FlWrite

SpecFlow == InitFlow /\ [][NextFlow]_vars

\* Every HTTP exchange returns, every sleep ends, and the process is not
\* stopped from outside: a step that can be taken is taken.
SpecFlowLive == SpecFlow /\ WF_vars(NextFlow)

-----------------------------------------------------------------------------
(* Properties of the orchestrator (Spec).                                  *)

Returned == pc = "done" /\ token # None

Issued(m, p) == \E i \in 1..Len(requests) : requests[i].m = m /\ requests[i].p = p

Recorded(test_id) == \E i \in 1..Len(results) : results[i][1] = test_id

RecordedAs(test_id, st) ==
    \E i \in 1..Len(results) : results[i][1] = test_id /\ results[i][2] = st

AnyFail == \E i \in 1..Len(results) : results[i][2] = "FAIL"

MutatingEndpoints ==
    {<<"GET", "/v1/items/vote">>,
     <<"POST", "/v1/bookmarks/create">>, <<"POST", "/v1/bookmarks/add">>,
     <<"POST", "/v1/bookmarks/remove-item">>, <<"POST", "/v1/bookmarks/remove-folder">>,
     <<"GET", "/v1/watching/marktime">>, <<"GET", "/v1/watching/toggle">>,
     <<"GET", "/v1/watching/togglewatchlist">>,
     <<"POST", "/v1/device/notify">>, <<"POST", "/v1/device/{id}/settings">>,
     <<"GET", "api2/v1.1/notifications/add/{id}">>,
     <<"GET", "api2/v1.1/notifications/delete/{id}">>,
     <<"POST", "api2/v1/upload_report/{filename}">>}

DestructiveEndpoints ==
    {<<"POST", "/v1/history/clear-for-media">>, <<"POST", "/v1/history/clear-for-season">>,
     <<"POST", "/v1/history/clear-for-item">>}

MutatingTestIds ==
    {"test-content-vote-mutating", "test-bookmarks-mutating", "test-watching-mutating",
     "test-watchlist-toggle-mutating", "test-device-mutating",
     "test-api2-notifications-mutating", "test-api2-upload-report"}

\* C1: whatever the earlier responses, with include_mutating false no request
\* to a state-changing endpoint has been issued, and with include_destructive
\* false no history clear request has been issued; each flag gates its own
\* class only.
C1_FlagsGateRequests ==
    \A i \in 1..Len(requests) :
        /\ ~include_mutating => <<requests[i].m, requests[i].p>> \notin MutatingEndpoints
        /\ ~include_destructive => <<requests[i].m, requests[i].p>> \notin DestructiveEndpoints

\* C1 witness: a run with destructive tests on and mutating tests off has
\* returned after issuing a history clear request.
C1_Witness ==
    /\ Returned /\ include_destructive /\ ~include_mutating
    /\ Issued("POST", "/v1/history/clear-for-item")
    /\ Issued("GET", "/v1/items?type=serial")

DisablingMessages(test_id) ==
    {MUTATING_DISABLED}
    \cup (IF test_id = "test-api2-notifications-mutating" /\ api2_device_token = Some(FALSE)
          THEN {"api2 notifications skipped: provide --api2-device-token"} ELSE {})
    \cup (IF test_id = "test-api2-upload-report" /\ api2_upload_report = Some(FALSE)
          THEN {"api2 upload_report skipped (enable with --api2-upload-report)"} ELSE {})

TestInventory ==
    {"test-auth-oauth2-device-flow", "test-user", "test-references", "test-tv",
     "test-content-types", "test-content-genres", "test-content-countries",
     "test-content-subtitles", "test-content-items", "test-content-items-filters",
     "test-content-item-details", "test-content-search", "test-content-similar",
     "test-content-fresh", "test-content-fresh-genre", "test-content-hot",
     "test-content-hot-genre", "test-content-popular", "test-content-popular-genre",
     "test-content-trailer", "test-content-comments", "test-content-vote-mutating",
     "test-content-media-links", "test-content-media-video-link", "test-collections",
     "test-collections-sort", "test-collections-view", "test-bookmarks-mutating",
     "test-watching", "test-watching-mutating", "test-watchlist-toggle-mutating",
     "test-history", "test-history-mutating", "test-device", "test-device-mutating",
     "test-api2-items-search", "test-api2-item-details", "test-api2-item-collections",
     "test-api2-backdrop", "test-api2-imdb", "test-api2-notifications-mutating",
     "test-api2-upload-report"}

SummaryIds(doc) == {doc[i][1] : i \in 1..Len(doc)}

\* C4: every run that resolves a token lists the same test ids in its
\* summary, whatever the flags and the identifiers extracted: every test of
\* the inventory is listed, as SKIP if it was not executed.
C4_FixedInventory ==
    Returned => /\ Len(summary) = 1
                /\ \A id \in TestInventory : id \in SummaryIds(summary[1])

ItemDependents ==
    {"test-content-item-details", "test-content-similar", "test-content-trailer",
     "test-content-comments", "test-content-vote-mutating", "test-bookmarks-mutating",
     "test-watching", "test-watching-mutating"}

\* C5: when an identifier could not be extracted, every test that depends on
\* it is still recorded, as SKIP, and the run is neither aborted nor raised
\* out of: item id, media id, collection id, season id and device id.
C5_DependentsSkipped ==
    Returned =>
        /\ ctx.item_id = None => \A id \in ItemDependents : RecordedAs(id, "SKIP")
        /\ ctx.media_id = None => RecordedAs("test-content-media-links", "SKIP")
        /\ ctx.col_id = None => RecordedAs("test-collections-view", "SKIP")
        /\ ctx.dev_id = None => RecordedAs("test-device-mutating", "SKIP")
        /\ (include_destructive /\ ctx.season_id = None)
              => RecordedAs("test-history-mutating", "SKIP")

LastTestIds == {"test-api2", "test-api2-upload-report"}

\* C6: a transport failure in one probe's exchange is never thrown past the
\* orchestrator; the remaining tests still run, down to the last one, and the
\* summary is written.
C6_TransportFailureLocal ==
    /\ pc # "raised"
    /\ Returned =>
          /\ Len(summary) = 1
          /\ results # <<>> /\ results[Len(results)][1] \in LastTestIds

\* C8: a run that resolved no token has returned 2, has issued no request,
\* recorded no outcome and written no summary; no other run returns 2.
C8_MissingToken ==
    /\ (pc # "start" /\ token = None) =>
          /\ pc = "done" /\ exit_code = Some(2)
          /\ requests = <<>> /\ results = <<>> /\ summary = <<>>
    /\ exit_code = Some(2) => token = None

\* C8 witness: the run is over without a token.
C8_Witness == pc = "done" /\ token = None /\ exit_code = Some(2)

-----------------------------------------------------------------------------
(* Properties of token resolution (SpecToken).                             *)

IsBlank(t) == \A i \in 1..Len(t) : t[i] \in Whitespace

\* r is t without its leading and trailing whitespace.
IsTrimOf(r, t) ==
    \E i \in 1..(Len(t) + 1), j \in 0..Len(t) :
        /\ r = SubSeq(t, i, j)
        /\ \A n \in 1..(i - 1) : t[n] \in Whitespace
        /\ \A n \in (j + 1)..Len(t) : t[n] \in Whitespace
        /\ r # <<>> => r[1] \notin Whitespace /\ r[Len(r)] \notin Whitespace

Given(x) == x # None /\ ~IsBlank(x[1])

\* A line that can be the token: not blank, and its first character that is
\* not whitespace is not the comment sign.
TokenLine(line) ==
    /\ ~IsBlank(line)
    /\ \A i \in 1..Len(line) :
          (line[i] \notin Whitespace /\ \A j \in 1..(i - 1) : line[j] \in Whitespace)
              => line[i] # "#"

\* The tokens a file may yield: a non-blank string in its
\* access_token or token field, or its first token line, each trimmed.
FileOffers(f) ==
    IF f.kind = "absent" THEN {}
    ELSE LET lines == SplitLines(f.raw)
             firsts == {i \in 1..Len(lines) :
                          TokenLine(lines[i]) /\ \A j \in 1..(i - 1) : ~TokenLine(lines[j])}
             fields == IF f.kind = "json"
                       THEN {v.s : v \in {w \in {f.access_token, f.token} :
                                            w.ty = "str" /\ ~IsBlank(w.s)}}
                       ELSE {}
         IN  {lines[i] : i \in firsts} \cup fields

\* C7: a non-blank argument wins, tagged "arg"; otherwise a non-blank
\* environment value, tagged "env"; otherwise a token the file yields, tagged
\* "file"; otherwise nothing, tagged "missing".  The value returned is the
\* chosen text without surrounding whitespace, and it is never empty.
C7_TokenPrecedence ==
    tk_pc = "resolved" =>
        /\ Given(tk_arg) =>
              /\ tk_res.source = "arg"
              /\ tk_res.token # None /\ IsTrimOf(tk_res.token[1], tk_arg[1])
        /\ (~Given(tk_arg) /\ Given(tk_env)) =>
              /\ tk_res.source = "env"
              /\ tk_res.token # None /\ IsTrimOf(tk_res.token[1], tk_env[1])
        /\ (~Given(tk_arg) /\ ~Given(tk_env) /\ FileOffers(tk_file) # {}) =>
              /\ tk_res.source = "file"
              /\ tk_res.token # None
              /\ \E t \in FileOffers(tk_file) : IsTrimOf(tk_res.token[1], t)
        /\ (~Given(tk_arg) /\ ~Given(tk_env) /\ FileOffers(tk_file) = {}) =>
              tk_res = [token |-> None, source |-> "missing"]
        /\ tk_res.token # Some(<<>>)
        /\ tk_res.token = None <=> tk_res.source = "missing"

\* C7 witness: a blank argument and no environment value were passed over and
\* the token came from a JSON token file's field.
C7_Witness ==
    /\ tk_pc = "resolved"
    /\ tk_arg = Some(<<" ">>) /\ tk_env = None
    /\ tk_file.kind = "json"
    /\ tk_res = [token |-> Some(<<"c">>), source |-> "file"]

-----------------------------------------------------------------------------
(* Properties of redaction (SpecRedact).                                   *)

SensitiveNames ==
    {K_access_token, K_refresh_token, K_client_secret, K_device_token, K_code, K_user_code}

SameIgnoringCase(a, b) ==
    /\ Len(a) = Len(b)
    /\ \A i \in 1..Len(a) : LowerChar(a[i]) = LowerChar(b[i])

NamesSecret(key) == \E name \in SensitiveNames : SameIgnoringCase(key, name)

\* r is d with the value of every sensitive key replaced by the marker, at
\* any depth, and everything else as it was.
RECURSIVE RedactedAs(_, _)
RedactedAs(d, r) ==
    CASE d.k = "obj" ->
            /\ r.k = "obj"
            /\ DOMAIN r.m = DOMAIN d.m
            /\ \A key \in DOMAIN d.m :
                  IF NamesSecret(key) THEN r.m[key] = REDACTED
                  ELSE RedactedAs(d.m[key], r.m[key])
      [] d.k = "arr" ->
            /\ r.k = "arr"
            /\ Len(r.a) = Len(d.a)
            /\ \A i \in 1..Len(d.a) : RedactedAs(d.a[i], r.a[i])
      [] OTHER -> r.k = "scalar" /\ r.v = d.v

\* C9: redaction replaces the value of every sensitive key, matched without
\* regard to case, by the marker at any nesting depth inside objects and
\* arrays, and leaves every other key, every other value and every array
\* length as it was.
C9_RedactsSensitiveKeys == rd_pc \in {"once", "twice"} => RedactedAs(rd_doc, rd_out)

\* C9 witness: a mixed-case sensitive key inside an object inside an array
\* inside an object was redacted, its non-sensitive sibling kept.
C9_Witness ==
    /\ rd_pc = "once"
    /\ rd_doc = Obj(K_title :> Arr(<<Scalar("tok"),
                                    Obj((K_Code :> Scalar("tok")) @@ (K_title :> Scalar("tok")))>>))
    /\ rd_out = Obj(K_title :> Arr(<<Scalar("tok"),
                                    Obj((K_Code :> REDACTED) @@ (K_title :> Scalar("tok")))>>))

\* C10: redacting the redaction of a document yields the redaction itself.
C10_Idempotent == rd_pc = "twice" => rd_out2 = rd_out

\* C10 witness: a document that redaction changed, inside an array, has been
\* redacted twice.
C10_Witness ==
    /\ rd_pc = "twice"
    /\ rd_out # rd_doc
    /\ rd_doc.k = "arr" /\ Len(rd_doc.a) = 2

\* r has the shape of d: an object with the same keys whose values have the
\* same shapes, an array of the same length whose elements have the same
\* shapes, or a scalar for a scalar.
RECURSIVE SameShape(_, _)
SameShape(d, r) ==
    CASE d.k = "obj" ->
            /\ r.k = "obj"
            /\ DOMAIN r.m = DOMAIN d.m
            /\ \A key \in DOMAIN d.m : SameShape(d.m[key], r.m[key])
      [] d.k = "arr" ->
            /\ r.k = "arr"
            /\ Len(r.a) = Len(d.a)
            /\ \A i \in 1..Len(d.a) : SameShape(d.a[i], r.a[i])
      [] OTHER -> r.k = "scalar"

\* C11: the redacted document has the same keys at every level and arrays of
\* the same length as the input, also where a sensitive key holds an object
\* or an array: only scalar values are replaced.
C11_ShapePreserved == rd_pc \in {"once", "twice"} => SameShape(rd_doc, rd_out)

-----------------------------------------------------------------------------
(* Properties of snapshots (SpecSnap).                                     *)

SensitiveHeaderNames == {K_Authorization}
SensitiveParamNames == {K_access_token, K_refresh_token, K_client_secret}

NamedIn(key, names) == \E name \in names : SameIgnoringCase(key, name)

Markers == {"<REDACTED>", "Bearer <REDACTED>"}

\* Every value of part that is under a key named in names, and is not null,
\* is a marker in the stored part.
PartRedacted(part, stored, names) ==
    part # None =>
        /\ stored # None /\ DOMAIN stored[1] = DOMAIN part[1]
        /\ \A key \in DOMAIN part[1] :
              (NamedIn(key, names) /\ part[1][key] # "null") => stored[1][key] \in Markers

Contains(text, sub) == \E i \in 1..(Len(text) - Len(sub) + 1) : HasAt(text, i, sub)

\* The document holds the scalar v under some sensitive key, at any depth.
RECURSIVE HoldsSecret(_, _)
HoldsSecret(d, v) ==
    CASE d.k = "obj" ->
            \E key \in DOMAIN d.m :
                \/ NamesSecret(key) /\ d.m[key] = Scalar(v)
                \/ HoldsSecret(d.m[key], v)
      [] d.k = "arr" -> \E i \in 1..Len(d.a) : HoldsSecret(d.a[i], v)
      [] OTHER -> FALSE

\* The document holds the scalar v anywhere.
RECURSIVE HoldsValue(_, _)
HoldsValue(d, v) ==
    CASE d.k = "obj" -> \E key \in DOMAIN d.m : HoldsValue(d.m[key], v)
      [] d.k = "arr" -> \E i \in 1..Len(d.a) : HoldsValue(d.a[i], v)
      [] OTHER -> d.v = v

\* C13: a credential that the response's JSON body holds under a sensitive
\* key appears neither in the body text stored in the snapshot nor in the
\* parsed JSON stored in it.
C13_BodyTextRedacted ==
    (sn_pc = "saved" /\ sn_resp.json # None /\ HoldsSecret(sn_resp.json[1], "secret")) =>
        /\ ~Contains(sn_out.response.raw_text, T_secret)
        /\ ~HoldsValue(sn_out.response.json[1], "secret")

-----------------------------------------------------------------------------
(* Properties of the device flow (SpecFlow, SpecFlowLive).                 *)

Pending(r) == HasError(r) /\ r.error = "authorization_pending"
SlowDown(r) == HasError(r) /\ r.error = "slow_down"
Refused(r) == HasError(r) /\ r.error \in {"expired_token", "access_denied"}

Terminated == fl_pc \in {"done", "raised"}

\* The step sleeps the current interval and returns to the loop test.
SleepsCurrent ==
    /\ fl_sleeps' = Append(fl_sleeps, fl_poll_interval)
    /\ fl_now' = fl_now + fl_poll_interval
    /\ fl_pc' = "loop"

\* The step starts one more poll request.
PollsAgain == Len(fl_poll_times') = Len(fl_poll_times) + 1

\* C14 as stated: every poll answer whose error field is
\* authorization_pending is handled without raising and without changing
\* the poll interval; the current interval is then slept and, the deadline
\* not having elapsed, the next poll is started.
C14_Original ==
    [][ /\ (fl_pc = "answer" /\ Pending(fl_resp))
            => (fl_pc' = "sleep" /\ fl_poll_interval' = fl_poll_interval /\ fl_end' = fl_end)
        /\ (fl_pc = "sleep" /\ Pending(fl_resp)) => SleepsCurrent
        /\ (fl_pc = "loop" /\ fl_now < fl_deadline) => PollsAgain ]_vars

\* C14: a poll answer whose error field is authorization_pending and which
\* carries no string access_token is handled without raising and without
\* changing the poll interval; the current interval is then slept and, the
\* deadline not having elapsed, the next poll is started.
C14_PendingContinues ==
    [][ /\ (fl_pc = "answer" /\ Pending(fl_resp) /\ ~HasToken(fl_resp))
            => (fl_pc' = "sleep" /\ fl_poll_interval' = fl_poll_interval /\ fl_end' = fl_end)
        /\ (fl_pc = "sleep" /\ Pending(fl_resp)) => SleepsCurrent
        /\ (fl_pc = "loop" /\ fl_now < fl_deadline) => PollsAgain ]_vars

\* Two authorization_pending answers were slept on, one of them after a
\* slow_down, and a further poll has been answered.
C14_Witness ==
    /\ fl_pc = "answer" /\ Len(fl_poll_times) >= 4 /\ Len(fl_sleeps) = Len(fl_poll_times) - 1
    /\ fl_slow = 1 /\ fl_end = ""

\* C15: while the loop continues, the poll interval is max(1, interval)
\* plus 5 for every slow_down answer received, and it is the interval the
\* last sleep lasted; the only step that changes it is the handling of a
\* slow_down answer, which adds exactly 5.
C15_SlowDownAddsFive ==
    /\ [](fl_pc \in {"sleep", "loop"}
            => /\ fl_poll_interval = PyMax(1, fl_interval) + 5 * fl_slow
               /\ (fl_pc = "loop" /\ fl_sleeps # <<>>)
                    => fl_sleeps[Len(fl_sleeps)] = fl_poll_interval)
    /\ [][ /\ (fl_pc = "answer" /\ fl_pc' = "sleep" /\ SlowDown(fl_resp))
               => fl_poll_interval' = fl_poll_interval + 5
           /\ (fl_pc \notin {"device_code"} /\ fl_poll_interval' # fl_poll_interval)
               => (fl_pc = "answer" /\ SlowDown(fl_resp)) ]_vars

\* Two slow_down answers after a device-code answer with interval 1: the
\* second sleep lasted 11 seconds.
C15_Witness ==
    /\ fl_pc = "loop" /\ fl_slow = 2 /\ fl_interval = 1
    /\ fl_sleeps = <<6, 11>> /\ fl_poll_interval = 11

\* C16 as stated: every poll answer with error expired_token or
\* access_denied raises on that call; nothing is slept, no request is made
\* and no token comes back after it.
C16_Original ==
    [][ /\ (fl_pc = "answer" /\ Refused(fl_resp))
            => /\ fl_pc' = "raised"
               /\ fl_end' = (IF fl_resp.error = "expired_token" THEN "expired" ELSE "denied")
               /\ UNCHANGED <<fl_sleeps, fl_poll_times, fl_code_reqs, fl_file, fl_printed>>
        /\ fl_pc # "raised" ]_vars

\* C16: a poll answer with error expired_token or access_denied and no
\* string access_token raises on that call; nothing is slept, no request is
\* made and no token comes back after it.
C16_RefusalIsFatal ==
    [][ /\ (fl_pc = "answer" /\ Refused(fl_resp) /\ ~HasToken(fl_resp))
            => /\ fl_pc' = "raised"
               /\ fl_end' = (IF fl_resp.error = "expired_token" THEN "expired" ELSE "denied")
               /\ UNCHANGED <<fl_sleeps, fl_poll_times, fl_code_reqs, fl_file, fl_printed>>
        /\ fl_pc # "raised" ]_vars

\* The third poll was answered access_denied and the flow has raised.
C16_Witness ==
    /\ fl_pc = "raised" /\ fl_end = "denied" /\ Refused(fl_resp)
    /\ Len(fl_poll_times) = 3 /\ Len(fl_sleeps) = 2 /\ fl_printed = None

\* C17: a poll that is not the first follows an answer that is a JSON
\* object with error authorization_pending or slow_down; an answer with a
\* string access_token ends in success whatever its error field; every
\* other answer ends in a fatal failure, after which nothing is requested.
C17_OnlyTwoErrorsContinue ==
    [][ /\ (PollsAgain /\ fl_poll_times # <<>>)
            => (fl_resp.json = "dict" /\ (Pending(fl_resp) \/ SlowDown(fl_resp)))
        /\ (fl_pc = "answer" /\ HasToken(fl_resp))
            => (fl_pc' = "write" /\ fl_end' = "success")
        /\ (fl_pc = "write") => (fl_pc' = "done" /\ fl_exit' = Some(0))
        /\ (fl_pc = "answer" /\ ~HasToken(fl_resp) /\ ~Pending(fl_resp) /\ ~SlowDown(fl_resp))
            => /\ fl_pc' = "raised"
               /\ fl_end' \in {"expired", "denied", "protocol"}
               /\ UNCHANGED <<fl_poll_times, fl_code_reqs, fl_sleeps>>
        /\ fl_pc \notin {"raised", "done"} ]_vars

\* After two polls that continued, an answer with a string access_token and
\* an error string has ended the flow in success.
C17_Witness ==
    /\ fl_pc = "done" /\ fl_end = "success" /\ HasToken(fl_resp) /\ HasError(fl_resp)
    /\ fl_resp.error = "access_denied" /\ Len(fl_poll_times) = 3

FlowEnds == {"success", "expired", "denied", "protocol", "timeout"}

\* C18: every HTTP exchange returning and every sleep advancing the clock,
\* the device flow terminates; it ends in one of success, expired, denied,
\* protocol error and timeout, and the end once decided does not change; the
\* device-code request is made once; every poll starts before the deadline;
\* a flow whose every answer was authorization_pending or slow_down ends in
\* timeout.
C18_Terminates ==
    /\ <>Terminated
    /\ []((Terminated /\ fl_creds /\ fl_end # "transport") => fl_end \in FlowEnds)
    /\ [][fl_end # "" => fl_end' = fl_end]_vars
    /\ [](fl_code_reqs <= 1)
    /\ []((fl_creds /\ fl_pc \notin {"main", "device_code"}) => fl_code_reqs = 1)
    /\ [](\A i \in 1..Len(fl_poll_times) : fl_poll_times[i] < fl_deadline)
    /\ [](fl_end = "timeout" => (fl_pc = "raised" /\ fl_now >= fl_deadline))
    /\ []((Terminated /\ fl_poll_times # <<>> /\ fl_end # "transport" /\ ~HasToken(fl_resp)
            /\ (Pending(fl_resp) \/ SlowDown(fl_resp)))
          => fl_end = "timeout")

\* Three polls were answered authorization_pending or slow_down and the
\* flow has ended in timeout.
C18_Witness ==
    /\ fl_pc = "raised" /\ fl_end = "timeout" /\ Len(fl_poll_times) = 3
    /\ Len(fl_sleeps) = 3 /\ fl_code_reqs = 1

\* The token file is not the one, if any, that was there at the start.
FileWritten == fl_file \notin {None, Some(OldFile)}

\* C19: the token file is written exactly when the flow ends in success;
\* without client credentials the exit code is 2 and no request is made; a
\* flow that raises leaves the file alone; the file written holds the
\* access_token and refresh_token of the answer as received and the time of
\* writing, while the terminal shows at most a proper prefix of the token.
C19_FileIffSuccess ==
    /\ FileWritten => (fl_pc = "done" /\ fl_end = "success")
    /\ (fl_pc = "done" /\ fl_end = "success")
         => /\ fl_file = Some([access_token |-> fl_resp.access_token,
                               refresh_token |-> fl_resp.refresh_token,
                               obtained_at |-> fl_now])
            /\ FileWritten /\ fl_exit = Some(0)
            /\ fl_printed # None
            /\ Len(fl_printed[1].prefix) < Len(fl_resp.access_token)
            /\ Len(fl_printed[1].prefix) <= 6
    /\ (Terminated /\ ~fl_creds)
         => (fl_exit = Some(2) /\ fl_code_reqs = 0 /\ fl_poll_times = <<>> /\ ~FileWritten)
    /\ fl_pc = "raised" => (~FileWritten /\ fl_printed = None /\ fl_exit = None)

\* A flow that ended in success wrote an eight-character access token and a
\* refresh token in full and printed six characters of the former.
C19_Witness ==
    /\ fl_pc = "done" /\ fl_end = "success" /\ fl_file # None
    /\ fl_file[1].access_token = LongToken /\ fl_file[1].refresh_token = Some(LongToken)
    /\ fl_printed # None /\ Len(fl_printed[1].prefix) = 6

-----------------------------------------------------------------------------
(* Properties of the items-listing probe (SpecList).                       *)

\* items is a non-empty array whose first element is an object with an
\* integer id and string title and type, and pagination, if there, is an
\* object with integer total, current and perpage.
GoodListing(resp) ==
    /\ resp.json = "dict" /\ resp.items = "list" /\ resp.it0 = "obj"
    /\ resp.id_ty = "int" /\ resp.title = "str" /\ resp.type = "str"
    /\ \/ resp.pag \in {"absent", "null"}
       \/ /\ resp.pag = "obj"
          /\ resp.total = "int" /\ resp.current = "int" /\ resp.perpage = "int"

NoItems(resp) == resp.json # "dict" \/ resp.items \in {"absent", "empty"}

PickFailedRecorded ==
    \E i \in 1..Len(li_out.o.errs) : li_out.o.errs[i] = Msg("", PICK_FAILED)

ListingRest ==
    /\ NoItems(li_resp)
         => (li_out.item_id = None /\ PickFailedRecorded /\ li_out.o.st = "FAIL")
    /\ li_out.item_id # None <=> ~PickFailedRecorded

\* C20 as stated: a listing whose items and pagination are well formed
\* yields the id of items[0] and no error; without items the probe yields
\* no id, records the extraction failure and is FAIL; an id is yielded
\* exactly when no extraction failure is recorded.
C20_Original ==
    li_pc = "returned"
      => /\ GoodListing(li_resp)
              => (li_out.item_id = Some(li_resp.id) /\ li_out.o.errs = <<>>)
         /\ ListingRest

\* C20: a listing whose items and pagination are well formed and whose
\* status, if there and not null, is an integer yields the id of items[0],
\* no error and PASS; without items the probe yields no id, records the
\* extraction failure and is FAIL; an id is yielded exactly when no
\* extraction failure is recorded.
C20_ListingPick ==
    li_pc = "returned"
      => /\ (GoodListing(li_resp) /\ li_resp.status \in {"absent", "null", "int"})
              => /\ li_out.item_id = Some(li_resp.id)
                 /\ li_out.o.errs = <<>> /\ li_out.o.st = "PASS"
         /\ ListingRest

\* A well-formed listing with pagination and an integer status was probed:
\* id 42, no error.
C20_Witness ==
    /\ li_pc = "returned" /\ li_resp = LiveListing(42)
    /\ li_out.item_id = Some(42) /\ li_out.o.st = "PASS"

-----------------------------------------------------------------------------
(* Further properties of the orchestrator (Spec).                          *)

\* The positions in requests of the requests to an endpoint.
Positions(m, p) == {i \in 1..Len(requests) : requests[i].m = m /\ requests[i].p = p}

\* C21: once the bookmark test is over, a create request it issued is
\* followed by a remove-item request and, after that one, by a remove-folder
\* request, whatever the steps in between answered.
C21_CleanupAlways ==
    pc # "bookmarks" =>
        \A c \in Positions("POST", "/v1/bookmarks/create") :
            \E i \in Positions("POST", "/v1/bookmarks/remove-item"),
               f \in Positions("POST", "/v1/bookmarks/remove-folder") :
                c < i /\ i < f

\* The api2 probe that issues the requests to a path.
Api2Probe ==
    [p \in {"api2/v1.1/items/search", "api2/v1.1/items/{id}", "api2/v1.1/items/collections/{id}",
            "api2/v1/backdrop/{id}", "api2/v1/imdb/{id}", "api2/v1.1/notifications/add/{id}",
            "api2/v1.1/notifications/{id}", "api2/v1.1/notifications/delete/{id}",
            "api2/v1/upload_report/{filename}"} |->
        CASE p = "api2/v1.1/items/search" -> "test-api2-items-search"
          [] p = "api2/v1.1/items/{id}" -> "test-api2-item-details"
          [] p = "api2/v1.1/items/collections/{id}" -> "test-api2-item-collections"
          [] p = "api2/v1/backdrop/{id}" -> "test-api2-backdrop"
          [] p = "api2/v1/imdb/{id}" -> "test-api2-imdb"
          [] p = "api2/v1/upload_report/{filename}" -> "test-api2-upload-report"
          [] OTHER -> "test-api2-notifications-mutating"]

\* C23: an api2 probe one of whose requests was answered HTTP 404 is
\* recorded with status SKIP.
C23_Api2NotFoundSkips ==
    \A i \in 1..Len(requests) :
        (requests[i].p \in DOMAIN Api2Probe /\ requests[i].status = 404
            /\ Recorded(Api2Probe[requests[i].p]))
        => RecordedAs(Api2Probe[requests[i].p], "SKIP")

\* The positions of the requests that were answered, and of those whose
\* response was handed to _save_snapshot.
AnsweredAt == {i \in 1..Len(requests) : requests[i].status # 0}
SnapshotAt == {i \in 1..Len(requests) : requests[i].snap # ""}

\* C24: every request that was answered has its response saved as a
\* snapshot, so as many snapshots are written as exchanges were performed.
C24_EveryExchangeSaved ==
    /\ AnsweredAt \subseteq SnapshotAt
    /\ Cardinality(SnapshotAt) = Cardinality(AnsweredAt)

\* The run is over: _run_all returned or an exception left it.
RunOver == pc \in {"done", "raised"}

\* C25: a run that resolved a token and is over has written the summary
\* once, after its last outcome was recorded: the summary lists the recorded
\* outcomes, each with its status and errors, in the order of execution, and
\* no test id twice.
C25_SummaryOnce ==
    /\ Len(summary) <= 1
    /\ (RunOver /\ token # None)
         => /\ Len(summary) = 1
            /\ summary[1] = results
            /\ \A i, j \in 1..Len(results) : results[i][1] = results[j][1] => i = j

\* The file a snapshot is written to: <test_id>.snapshot.json, the test_id
\* of a reference snapshot holding the name of the reference.
SnapFile(req) == <<req.snap, IF req.snap = "ref_{name}" THEN req.ids ELSE <<>>>>

\* s is the beginning of t: the list only grew.
IsPrefix(s, t) == Len(s) <= Len(t) /\ SubSeq(t, 1, Len(s)) = s

\* The positions a step added to a list that was n long.
Added(n, t) == (n + 1)..Len(t)

\* C28: snapshot files are written once: the requests of a run only grow,
\* and a step never saves a response to a file that an earlier request of
\* the run, or another request of the same step, was saved to.
C28_SnapshotsWriteOnce ==
    [][ /\ IsPrefix(requests, requests')
        /\ \A i \in Added(Len(requests), requests') :
              requests'[i].snap # "" =>
                  \A j \in 1..(i - 1) :
                      requests'[j].snap # "" =>
                          SnapFile(requests'[j]) # SnapFile(requests'[i]) ]_vars

\* A run with mutating tests on has returned; the collections sort probe
\* tried a second candidate and both watchlist toggles were saved.
C28_Witness ==
    /\ Returned /\ include_mutating
    /\ Cardinality(Positions("GET", "/v1/collections?sort=")) = 3
    /\ \E i, j \in SnapshotAt :
          requests[i].snap = "watchlist_toggle_1" /\ requests[j].snap = "watchlist_toggle_2"

\* C29: every outcome recorded in the results list agrees with its error
\* list: the list only grows, and each outcome a step records has status
\* PASS, FAIL or SKIP; PASS comes with no error message, FAIL with at least
\* one, SKIP with exactly one (the reason).
C29_OutcomesConsistent ==
    [][ /\ IsPrefix(results, results')
        /\ \A i \in Added(Len(results), results') :
              LET status == results'[i][2]
                  errors == results'[i][3]
              IN  /\ status \in {"PASS", "FAIL", "SKIP"}
                  /\ status = "PASS" => errors = <<>>
                  /\ status = "FAIL" => Len(errors) >= 1
                  /\ status = "SKIP" => Len(errors) = 1 ]_vars

\* A finished run recorded all three statuses, the FAIL of test_device
\* with more than one message.
C29_Witness ==
    /\ Returned
    /\ \E i, j, k \in 1..Len(results) :
          /\ results[i][2] = "PASS" /\ results[j][2] = "SKIP"
          /\ results[k][1] = "test-device" /\ results[k][2] = "FAIL"
          /\ Len(results[k][3]) >= 2

\* The snapshot of the request whose full response holds each identifier.
YieldedBy ==
    (FullIds.item :> "content_items") @@ (FullIds.genre :> "content_genres")
    @@ (FullIds.media :> "content_item_details") @@ (FullIds.collection :> "collections_list")
    @@ (FullIds.serial :> "content_items_serial") @@ (FullIds.season :> "serial_item_details")
    @@ (FullIds.hist_item :> "history_list") @@ (FullIds.hist_media :> "history_list")
    @@ (FullIds.device_list :> "device_list") @@ (FullIds.device_info :> "device_info")
    @@ (FullIds.folder :> "bookmarks_create_folder") @@ (FullIds.api2_item :> "api2_items_search")
    @@ (FullIds.imdb :> "api2_item_details") @@ (FullIds.kinopoisk :> "api2_item_details")

\* Requests whose ids are positions of a fixed list, not threaded values.
IndexedPaths == {"/v1/references/{name}", "/v1/collections?sort="}

\* Before the i-th request of reqs, the request saved as snap had a full
\* response.
YieldedBefore(reqs, i, snap) ==
    \E j \in 1..(i - 1) : reqs[j].snap = snap /\ reqs[j].resp = "full"

\* The item id after "a or item_id": a's, when the response saved as snap
\* held it, else the listing's.
FallbackId(reqs, i, snap, a) == IF YieldedBefore(reqs, i, snap) THEN a ELSE FullIds.item

\* C30: no request is issued with an absent identifier: the requests of a
\* run only grow, and every identifier in the path, query or form of a
\* request a step issues is one that the full response to an earlier request
\* of the run held; the history clear-for-item request carries the history's
\* item id, or the listing's when the history held none, and the api2 item
\* requests carry the api2 search's item id, or the listing's.
C30_IdsWereYielded ==
    [][ /\ IsPrefix(requests, requests')
        /\ \A i \in Added(Len(requests), requests') :
              LET req == requests'[i] IN
              /\ req.p \notin IndexedPaths =>
                    \A k \in 1..Len(req.ids) :
                        /\ req.ids[k] \in DOMAIN YieldedBy
                        /\ YieldedBy[req.ids[k]] \in IdSources
                        /\ YieldedBefore(requests', i, YieldedBy[req.ids[k]])
              /\ req.snap = "history_clear_for_item" =>
                    req.ids = <<FallbackId(requests', i, "history_list", FullIds.hist_item)>>
              /\ req.snap \in {"api2_item_details", "api2_item_collections",
                               "api2_notifications_add"} =>
                    req.ids = <<FallbackId(requests', i, "api2_items_search",
                                           FullIds.api2_item)>> ]_vars

\* A finished run cleared the history of the listing's item and of a
\* season, and probed api2 with the search's item.
C30_Witness ==
    /\ Returned
    /\ \E i, j, k \in 1..Len(requests) :
          /\ requests[i].snap = "history_clear_for_item" /\ requests[i].ids = <<FullIds.item>>
          /\ requests[j].snap = "history_clear_for_season"
          /\ requests[k].snap = "api2_item_details" /\ requests[k].ids = <<FullIds.api2_item>>

-----------------------------------------------------------------------------
(* Properties of the settings update (SpecSettings).                       *)

\* v is the value in effect of an entry: its boolean (as 0 / 1) or integer
\* value, or the id of a selected option of its list, or, no option being
\* selected, the id of the first option that has one.
InEffect(entry, v) ==
    CASE entry.kind = "bool" -> v = (IF entry.b THEN 1 ELSE 0)
      [] entry.kind = "int" -> v = entry.n
      [] entry.kind = "list" ->
            LET opts == entry.opts
                n == Len(opts)
            IN  IF \E i \in 1..n : opts[i].obj /\ opts[i].selected
                THEN \E i \in 1..n :
                        opts[i].obj /\ opts[i].selected /\ opts[i].id_int /\ opts[i].id = v
                ELSE \E i \in 1..n :
                        /\ opts[i].obj /\ opts[i].id_int /\ opts[i].id = v
                        /\ \A j \in 1..(i - 1) : ~(opts[j].obj /\ opts[j].id_int)
      [] OTHER -> FALSE

SettingValues == {0, 1, 2, 5}

RequiredKeys == {REQUIRED_KEYS[i] : i \in 1..Len(REQUIRED_KEYS)}

Extractable ==
    /\ st_map # None
    /\ \A k \in RequiredKeys : \E v \in SettingValues : InEffect(st_map[1][k], v)

\* C22: the form posted has the seven required keys, each with the value in
\* effect in the settings read; when the value in effect of a required key
\* cannot be extracted nothing is posted and the outcome is FAIL.
C22_UpdateIsNoOp ==
    st_pc = "returned" =>
        IF Extractable
        THEN /\ st_out.form # None
             /\ DOMAIN st_out.form[1] = RequiredKeys
             /\ \A k \in RequiredKeys : InEffect(st_map[1][k], st_out.form[1][k])
        ELSE st_out.form = None /\ st_out.st = "FAIL"

-----------------------------------------------------------------------------
(* Properties of the device-code step (SpecCode).                          *)

\* C26: the device-code step raises, and the poll loop is not entered, when
\* the response is not a JSON object, or its code, user_code or
\* verification_uri is not a non-empty string, or its expires_in or interval
\* is not an integer, a boolean not being one.
C26_BadCodeIsFatal ==
    dc_pc # "request" =>
        ((\/ dc_resp.json # "dict"
          \/ dc_resp.code # "str" \/ dc_resp.user_code # "str"
          \/ dc_resp.verification_uri # "str"
          \/ dc_resp.expires_in # "int" \/ dc_resp.interval # "int")
         => (dc_pc = "raised" /\ dc_msg # ""))

-----------------------------------------------------------------------------
(* Properties of the shape assertions (SpecShape).                         *)

\* The type an assertion asks for, a boolean being neither an integer nor a
\* number.
Matches(assertion, ty) ==
    CASE assertion = "obj" -> ty = "dict"
      [] assertion = "list" -> ty = "list"
      [] assertion = "str" -> ty = "str"
      [] assertion = "int" -> ty = "int"
      [] assertion = "bool" -> ty = "bool"
      [] assertion = "num" -> ty \in {"int", "float"}
      [] OTHER -> ty = "true"

FailedChecks == {i \in 1..Len(sh_log) : ~Matches(sh_log[i][1], sh_log[i][2])}

\* C27: an assertion whose value has the type asked for leaves the
\* accumulator as it is, any other appends one message to it; the messages
\* there stay, the probe goes on, and at every point the accumulator holds
\* one message per failed check.
C27_Cumulative ==
    /\ [](Len(sh_errors) = Cardinality(FailedChecks))
    /\ [][ LET n == Len(sh_log')
               k == Len(sh_errors)
           IN  /\ n = Len(sh_log) + 1
               /\ sh_pc' = "probe"
               /\ IF Matches(sh_log'[n][1], sh_log'[n][2])
                  THEN sh_errors' = sh_errors
                  ELSE /\ Len(sh_errors') = k + 1
                       /\ SubSeq(sh_errors', 1, k) = sh_errors ]_vars

\* An integer assertion on a boolean added a message, a string assertion on
\* a string after it added none.
C27_Witness ==
    /\ sh_log = <<<<"int", "bool">>, <<"str", "str">>>>
    /\ Len(sh_errors) = 1

=============================================================================
